---------------------------- MODULE Spec2Model ----------------------------
(***************************************************************************)
(* A model of the GISTEMP rewrite: the weight normaliser and the haversine *)
(* distance of tools/utilities.py, the grid of steps/step2.py and the      *)
(* urban adjustment of steps/step4.py.                                     *)
(*                                                                         *)
(* Numbers.  Python floats are modelled in two ways.  Weights and anomaly  *)
(* values are exact rationals <<n, d>> in lowest terms (d > 0), so that    *)
(* +, -, * and / are exact and "within floating tolerance" reads "equal".  *)
(* Angles and the values of sin, cos, sqrt and arctan2 are fixed-point     *)
(* integers with Scale units to 1; a distance is a whole number of         *)
(* kilometres.                                                             *)
(***************************************************************************)
EXTENDS Integers, Sequences, FiniteSets, TLC

VARIABLES
    pc,             \* position of the run that is modelled
    d,              \* normalize_dict_values: the input mapping
    out,            \* normalize_dict_values(d)
    out2,           \* normalize_dict_values(normalize_dict_values(d))
    pt,             \* haversine_distance: the arguments
    distance,       \* haversine_distance: the result
    station_df,     \* step 2: the station metadata, a sequence of rows
    grid,           \* step 2: the table create_grid returns, a sequence of rows
    nearby,         \* step 2: per box number, what nearby_stations computed
    df,             \* step 4: the anomaly table with the brightness column
    args,           \* step 4: threshold, minimum count and radius of the call
    weights4,       \* step 4: what calculate_rural_weights computed
    df4,            \* step 4: the table adjust_urban_anomalies returns
    step1_output,   \* step 3: the station series and the baseline window
    step3_output,   \* step 3: the anomaly series
    df_trimmed,     \* step 6: the station anomaly table
    df_grid,        \* step 6: the grid table with its weight mappings
    grid_anomaly,   \* step 6: the table calculate_grid_anomalies returns
    ds_land,        \* step 6: the land field, per grid point a time series
    ds_ocean,       \* step 6: the ocean field, per grid point a time series
    ds_anomaly,     \* step 6: what combine_land_ocean_anomalies returns
    step0_output,   \* step 1: the station table before filtering
    df_filtered_coords, \* step 1: the table filter_coordinates returns
    coordinates,    \* the four coordinates of a call that may be undefined
    far,            \* what each haversine_distance returns for them
    df_1,           \* calculate_distances: the first table
    df_2,           \* calculate_distances: the second table
    distance_matrix, \* calculate_distances: the array it returns
    urban_adjustment_option, \* main: the option of the run
    results_dir,    \* main: the files of the results directory
    started,        \* main: the steps called so far, in order
    logged,         \* main: whether the except clause has logged an error
    step4_output,   \* main: the step whose table is passed on as step4_output
    df_drop_rules,  \* filter_by_rules: the rows of drop_rules.csv
    df_rules_input, \* filter_by_rules: the table passed in
    df_filtered_rules, \* filter_by_rules: the table returned
    df_stations_input, \* filter_by_stations: the table passed in
    df_filtered_stations, \* filter_by_stations: the table returned
    df_input4,      \* add_brightness_data: the anomaly table passed in
    brightness_df,  \* add_brightness_data: what collect_brightness_data returns
    anomaly_with_brightness, \* add_brightness_data: the merged table
    df_adjusted_urban \* step4: the table it returns

vars == <<pc, d, out, out2, pt, distance, station_df, grid, nearby,
          df, args, weights4, df4, step1_output, step3_output,
          df_trimmed, df_grid, grid_anomaly, ds_land, ds_ocean, ds_anomaly,
          step0_output, df_filtered_coords, coordinates, far,
          df_1, df_2, distance_matrix,
          urban_adjustment_option, results_dir, started, logged, step4_output,
          df_drop_rules, df_rules_input, df_filtered_rules,
          df_stations_input, df_filtered_stations,
          df_input4, brightness_df, anomaly_with_brightness,
          df_adjusted_urban>>

normVars == <<d, out, out2>>
havVars == <<pt, distance>>
step2Vars == <<station_df, grid, nearby>>
step4Vars == <<df, args, weights4, df4>>
step3Vars == <<step1_output, step3_output>>
gridAnomalyVars == <<df_trimmed, df_grid, grid_anomaly>>
combineVars == <<ds_land, ds_ocean, ds_anomaly>>
step1Vars == <<step0_output, df_filtered_coords>>
farVars == <<coordinates, far>>
distancesVars == <<df_1, df_2, distance_matrix>>
mainVars == <<urban_adjustment_option, results_dir, started, logged, step4_output>>
rulesVars == <<df_drop_rules, df_rules_input, df_filtered_rules>>
stationsVars == <<df_stations_input, df_filtered_stations>>
brightnessVars == <<df_input4, brightness_df, anomaly_with_brightness, df_adjusted_urban>>
lastVars == <<mainVars, rulesVars, stationsVars, brightnessVars>>
laterVars == <<step3Vars, gridAnomalyVars, combineVars, step1Vars, farVars,
               distancesVars, lastVars>>
earlierVars == <<normVars, havVars, step2Vars, step4Vars>>

\* The value of a variable no operation has assigned yet.
None == "None"

\* The variables of the other runs stay unassigned.
Step3None == step1_output = None /\ step3_output = None
GridAnomalyNone == df_trimmed = None /\ df_grid = None /\ grid_anomaly = None
CombineNone == ds_land = None /\ ds_ocean = None /\ ds_anomaly = None
Step1None == step0_output = None /\ df_filtered_coords = None
FarNone == coordinates = None /\ far = None
DistancesNone == df_1 = None /\ df_2 = None /\ distance_matrix = None
EarlierNone ==
    /\ d = None /\ out = None /\ out2 = None
    /\ pt = None /\ distance = None
    /\ station_df = None /\ grid = None /\ nearby = None
    /\ df = None /\ args = None /\ weights4 = None /\ df4 = None
MainNone ==
    /\ urban_adjustment_option = None /\ results_dir = None /\ started = None
    /\ logged = None /\ step4_output = None
RulesNone == df_drop_rules = None /\ df_rules_input = None /\ df_filtered_rules = None
StationsNone == df_stations_input = None /\ df_filtered_stations = None
BrightnessNone ==
    /\ df_input4 = None /\ brightness_df = None
    /\ anomaly_with_brightness = None /\ df_adjusted_urban = None
LastNone == MainNone /\ RulesNone /\ StationsNone /\ BrightnessNone
LaterNone ==
    /\ Step3None /\ GridAnomalyNone /\ CombineNone
    /\ Step1None /\ FarNone /\ DistancesNone
    /\ LastNone

-----------------------------------------------------------------------------
(* Integer helpers *)

Abs(x) == IF x < 0 THEN -x ELSE x

Sign(x) == IF x < 0 THEN -1 ELSE IF x > 0 THEN 1 ELSE 0

Min(x, y) == IF x <= y THEN x ELSE y

Max(x, y) == IF x >= y THEN x ELSE y

GCD[x \in Nat, y \in Nat] == IF y = 0 THEN x ELSE GCD[y, x % y]

-----------------------------------------------------------------------------
(* Exact rationals: Python's float +, -, *, / without rounding *)

Rat(n, m) ==
    LET g == GCD[Abs(n), Abs(m)]
        s == IF m < 0 THEN -1 ELSE 1
    IN  <<(s * n) \div g, (s * m) \div g>>

Zero == <<0, 1>>

One == <<1, 1>>

RatAdd(x, y) == Rat(x[1] * y[2] + y[1] * x[2], x[2] * y[2])

RatSub(x, y) == Rat(x[1] * y[2] - y[1] * x[2], x[2] * y[2])

RatMul(x, y) == Rat(x[1] * y[1], x[2] * y[2])

RatDiv(x, y) == Rat(x[1] * y[2], x[2] * y[1])

RatLeq(x, y) == x[1] * y[2] <= y[1] * x[2]

\* sum(d.values()): the values of a mapping added up, 0 for the empty mapping
RECURSIVE SumValues(_)
SumValues(m) ==
    IF DOMAIN m = {} THEN Zero
    ELSE LET k == CHOOSE x \in DOMAIN m : TRUE
         IN  RatAdd(m[k], SumValues([j \in DOMAIN m \ {k} |-> m[j]]))

-----------------------------------------------------------------------------
(* tools/utilities.py: normalize_dict_values *)

\* mutant: a zero total empties the mapping instead of returning it
normalize_dict_values_empties(m) ==
    LET total == SumValues(m)
    IN  IF total # Zero
        THEN [k \in DOMAIN m |-> RatDiv(m[k], total)]
        ELSE [k \in {} |-> Zero]

\* mutant: every value is divided by the number of entries
normalize_dict_values_by_len(m) ==
    LET total == SumValues(m)
    IN  IF total # Zero
        THEN [k \in DOMAIN m |-> RatDiv(m[k], <<Cardinality(DOMAIN m), 1>>)]
        ELSE m

\* mutant: the total is taken over the absolute values
normalize_dict_values_abs(m) ==
    LET total == SumValues([k \in DOMAIN m |-> <<Abs(m[k][1]), m[k][2]>>])
    IN  IF total # Zero
        THEN [k \in DOMAIN m |-> RatDiv(m[k], total)]
        ELSE m

normalize_dict_values(m) ==
    LET total == SumValues(m)
    IN  IF total # Zero
        THEN [k \in DOMAIN m |-> RatDiv(m[k], total)]
        ELSE m

-----------------------------------------------------------------------------
(* Fixed-point numbers: numpy's sin, cos, sqrt, arctan2, clip, radians *)

\* units to 1 of a fixed-point number (an angle in radians, a sine, ...)
Scale == 10 ^ 4

\* pi (as 355/113, rounded), pi/2 and 2 pi in fixed point
Pi == (355 * Scale + 56) \div 113

HalfPi == Pi \div 2

TwoPi == 2 * Pi

\* the product of two fixed-point numbers
Mul[x \in Int, y \in Int] == (x * y) \div Scale

\* sin on [0, pi/2] by its Taylor polynomial of degree 9
SinQ[x \in Int] ==
    LET x2 == Mul[x, x]
        t3 == Mul[x, x2] \div 6
        t5 == Mul[t3, x2] \div 20
        t7 == Mul[t5, x2] \div 42
        t9 == Mul[t7, x2] \div 72
    IN  Min(Scale, x - t3 + t5 - t7 + t9)

\* np.sin: the argument is reduced to one turn, then to the first quadrant
Sin[x \in Int] ==
    LET r == x % TwoPi
    IN  IF r <= HalfPi THEN SinQ[r]
        ELSE IF r <= Pi THEN SinQ[Pi - r]
        ELSE IF r <= Pi + HalfPi THEN -SinQ[r - Pi]
        ELSE -SinQ[TwoPi - r]

\* np.cos
Cos[x \in Int] == Sin[x + HalfPi]

\* np.sqrt of a number in [0, 1] that is held with Scale * Scale units to 1
\* (a square, or a product of squares): its integer square root, a
\* fixed-point number with Scale units to 1
SqrtBetween[n \in Nat, lo \in Nat, hi \in Nat] ==
    IF hi - lo <= 1 THEN lo
    ELSE LET mid == (lo + hi) \div 2
         IN  IF mid * mid <= n THEN SqrtBetween[n, mid, hi]
             ELSE SqrtBetween[n, lo, mid]

Sqrt[x \in Nat] == SqrtBetween[x, 0, Scale + 1]

\* np.arctan2(y, x) for y >= 0 and x >= 0: the largest angle t in [0, pi/2]
\* with y cos t >= x sin t, found by bisection
AtanBetween[y \in Nat, x \in Nat, lo \in Nat, hi \in Nat] ==
    IF hi - lo <= 1 THEN lo
    ELSE LET mid == (lo + hi) \div 2
         IN  IF y * Cos[mid] >= x * Sin[mid] THEN AtanBetween[y, x, mid, hi]
             ELSE AtanBetween[y, x, lo, mid]

Atan2[y \in Nat, x \in Nat] ==
    IF y = 0 THEN 0
    ELSE IF x = 0 THEN HalfPi
    ELSE AtanBetween[y, x, 0, HalfPi]

\* np.clip
Clip(x, lo, hi) == Max(lo, Min(x, hi))

\* np.radians: degrees (fixed point) to radians (fixed point), x * pi / 180
Radians(x) == ((x \div 180) * Pi + ((x % 180) * Pi) \div 180) \div Scale

\* a whole number of degrees as a fixed-point number
Deg(n) == n * Scale

-----------------------------------------------------------------------------
(* tools/utilities.py: haversine_distance, and the distance in degrees *)

\* mutant: the differences are replaced by sums of the coordinates
haversine_distance_sums(lat1, lon1, lat2, lon2, earth_radius) ==
    LET dlat == Abs(lat2 + lat1)
        dlon == Abs(lon2 + lon1)
        s1 == Sin[dlat \div 2]
        s2 == Sin[dlon \div 2]
        a0 == s1 * s1 + Mul[Mul[Cos[lat1], Cos[lat2]], s2] * s2
        a == Clip(a0, 0, Scale * Scale)
        c == 2 * Atan2[Sqrt[a], Sqrt[Scale * Scale - a]]
    IN  (earth_radius * c + Scale \div 2) \div Scale

\* The arguments are angles in radians (fixed point); the result is in the
\* unit of earth_radius, rounded to a whole number.  a, a sum of squares, is
\* held with Scale * Scale units to 1.
haversine_distance(lat1, lon1, lat2, lon2, earth_radius) ==
    LET dlat == Abs(lat2 - lat1)
        dlon == Abs(lon2 - lon1)
        s1 == Sin[dlat \div 2]
        s2 == Sin[dlon \div 2]
        a0 == s1 * s1 + Mul[Mul[Cos[lat1], Cos[lat2]], s2] * s2
        a == Clip(a0, 0, Scale * Scale)
        c == 2 * Atan2[Sqrt[a], Sqrt[Scale * Scale - a]]
    IN  (earth_radius * c + Scale \div 2) \div Scale

\* calculate_distances, one entry: the coordinates are degrees and are
\* converted to radians before haversine_distance is applied
GeoDistance(lat1, lon1, lat2, lon2, earth_radius) ==
    haversine_distance(Radians(lat1), Radians(lon1),
                       Radians(lat2), Radians(lon2), earth_radius)

-----------------------------------------------------------------------------
(* steps/step3.py: linearly_decreasing_weight (imported by step2 and step4) *)

\* mutant: the weight grows with the distance
linearly_decreasing_weight_grows(dist, max_distance) ==
    Rat(Max(0, Min(dist, max_distance)), max_distance)

linearly_decreasing_weight(dist, max_distance) ==
    LET clamped == Max(0, Min(dist, max_distance))
    IN  RatSub(One, Rat(clamped, max_distance))

-----------------------------------------------------------------------------
(* steps/step2.py: create_grid *)

\* mutant: the stop value is included
Arange_inclusive(start, stop, step) ==
    LET n == IF Sign(stop - start) = -Sign(step) THEN 0
             ELSE Abs(stop - start) \div Abs(step) + 1
    IN  [i \in 1 .. n |-> start + (i - 1) * step]

\* np.arange(start, stop, step): ceil((stop - start) / step) values from
\* start, the stop value excluded
Arange(start, stop, step) ==
    LET n == IF Sign(stop - start) # Sign(step) THEN 0
             ELSE (Abs(stop - start) + Abs(step) - 1) \div Abs(step)
    IN  [i \in 1 .. n |-> start + (i - 1) * step]

\* list(itertools.product(xs, ys)): every pair, the first component slowest
Product(xs, ys) ==
    [k \in 1 .. Len(xs) * Len(ys) |->
        <<xs[((k - 1) \div Len(ys)) + 1], ys[((k - 1) % Len(ys)) + 1]>>]

\* The table has the columns Lat and Lon; row i of the sequence is the row of
\* index (box number) i - 1.
create_grid ==
    LET lat_values == Arange(Deg(88), Deg(-90), Deg(-2))
        lon_values == Arange(Deg(0), Deg(360), Deg(2))
        polar_coordinates == <<<<Deg(90), Deg(0)>>, <<Deg(-90), Deg(0)>>>>
        combinations == Product(lat_values, lon_values) \o polar_coordinates
    IN  [i \in 1 .. Len(combinations) |->
            [Lat |-> combinations[i][1], Lon |-> combinations[i][2]]]

-----------------------------------------------------------------------------
(* steps/step2.py: nearby_stations *)

\* dict(zip(keys, values)) of two sequences, pair by pair: a later pair
\* replaces an earlier one of the same key
RECURSIVE DictZipTo(_, _, _)
DictZipTo(keys, values, n) ==
    IF n = 0 THEN <<>>
    ELSE (keys[n] :> values[n]) @@ DictZipTo(keys, values, n - 1)

DictZip(keys, values) == DictZipTo(keys, values, Min(Len(keys), Len(values)))

\* frame[mask]: the indices 1 .. n at which the boolean column keep is true,
\* in order
RECURSIVE SelectIdx(_, _, _)
SelectIdx(n, keep, acc) ==
    IF n = 0 THEN acc
    ELSE SelectIdx(n - 1, keep, IF keep[n] THEN <<n>> \o acc ELSE acc)

\* mutant: a station at exactly max_distance is left out
nearby_of_row_strict(row, stations, max_distance, earth_radius) ==
    LET distances == [j \in 1 .. Len(stations) |->
                        haversine_distance(row.Lat, row.Lon,
                                           stations[j].Latitude,
                                           stations[j].Longitude, earth_radius)]
        within == [j \in 1 .. Len(stations) |-> distances[j] < max_distance]
        rows == SelectIdx(Len(stations), within, <<>>)
        weights == [i \in 1 .. Len(rows) |->
                        linearly_decreasing_weight(distances[rows[i]], max_distance)]
        station_weights ==
            DictZip([i \in 1 .. Len(rows) |-> stations[rows[i]].Station_ID], weights)
    IN  [distances |-> distances,
         weights |-> station_weights,
         Nearby_Stations |-> normalize_dict_values(station_weights)]

\* One turn of the loop over the rows of grid_df (lines 107-139): the
\* distances of every station as haversine_distance returns them for the
\* coordinates of the two tables, the stations kept, their weights, and the
\* normalised mapping appended for the row.
nearby_of_row(row, stations, max_distance, earth_radius) ==
    LET distances == [j \in 1 .. Len(stations) |->
                        haversine_distance(row.Lat, row.Lon,
                                           stations[j].Latitude,
                                           stations[j].Longitude, earth_radius)]
        within == [j \in 1 .. Len(stations) |-> distances[j] <= max_distance]
        rows == SelectIdx(Len(stations), within, <<>>)
        weights == [i \in 1 .. Len(rows) |->
                        linearly_decreasing_weight(distances[rows[i]], max_distance)]
        station_weights ==
            DictZip([i \in 1 .. Len(rows) |-> stations[rows[i]].Station_ID], weights)
    IN  [distances |-> distances,
         weights |-> station_weights,
         Nearby_Stations |-> normalize_dict_values(station_weights)]

\* grid_df given as the set of box numbers of its rows: per box number the
\* distances, the weights before normalisation and the Nearby_Stations value
nearby_stations(grid_df, boxes, stations, max_distance, earth_radius) ==
    [b \in boxes |-> nearby_of_row(grid_df[b + 1], stations, max_distance, earth_radius)]

-----------------------------------------------------------------------------
(* steps/step4.py: calculate_rural_weights and adjust_urban_anomalies *)

\* A missing value (NaN) of a series: the one pair that is no rational
NaN == <<0, 0>>

IsNaN(x) == x[2] = 0

\* mutant: a station at the threshold is urban
is_urban_at_threshold(value, brightness_threshold) == value >= brightness_threshold

\* df_copy["Urban"] = df_copy["Value"] > brightness_threshold
is_urban(value, brightness_threshold) == value > brightness_threshold

\* The tables are functions of the station id (the index), the rows in the
\* order of the ids; a row holds Latitude, Longitude, Value and the series,
\* the values of the month columns in order.

\* the ids of the rows of a frame held as the sequence q of its ids
SeqSet(q) == {q[i] : i \in 1 .. Len(q)}

\* the ids of the rows at which the boolean column keep is true, in row order
RowsWhere(keep) == SelectIdx(Cardinality(DOMAIN keep), keep, <<>>)

\* df_rural_meta.apply(lambda x: haversine_distance(...), axis=1), lines
\* 206-215: the column of the distances of the first n rural rows, as
\* haversine_distance returns them for the coordinates of the table
RECURSIVE distance_column(_, _, _, _, _)
distance_column(table, urban_id, rural, n, earth_radius) ==
    IF n = 0 THEN <<>>
    ELSE Append(distance_column(table, urban_id, rural, n - 1, earth_radius),
                haversine_distance(table[urban_id].Latitude,
                                   table[urban_id].Longitude,
                                   table[rural[n]].Latitude,
                                   table[rural[n]].Longitude,
                                   earth_radius))

\* lines 216-225: the rural rows within the radius, their weights and the
\* mapping of their ids to the weights
nearby_weights(rural, distances, urban_nearby_radius) ==
    LET within == [j \in 1 .. Len(rural) |-> distances[j] <= urban_nearby_radius]
        rows == SelectIdx(Len(rural), within, <<>>)
        weights == [i \in 1 .. Len(rows) |->
                        linearly_decreasing_weight(distances[rows[i]],
                                                   urban_nearby_radius)]
    IN  DictZip([i \in 1 .. Len(rows) |-> rural[rows[i]]], weights)

\* One turn of the loop over the urban stations (lines 200-231): the mapping
\* appended for the urban station.  distances and weights_dict are the
\* locals of the loop, each bound to the value computed for it.
rural_weights_of(table, urban_id, rural, earth_radius, urban_nearby_radius) ==
    CHOOSE normalized_weights \in
        { normalize_dict_values(weights_dict) :
            weights_dict \in
                { nearby_weights(rural, distances, urban_nearby_radius) :
                    distances \in
                        { distance_column(table, urban_id, rural, Len(rural),
                                          earth_radius) } } } : TRUE

\* mutant: the mapping needs more than min_nearby_stations entries
calculate_rural_weights_more(table, brightness_threshold, min_nearby_stations, earth_radius, urban_nearby_radius) ==
    LET urban == RowsWhere([s \in DOMAIN table |->
                               is_urban(table[s].Value, brightness_threshold)])
        rural == RowsWhere([s \in DOMAIN table |->
                               ~is_urban(table[s].Value, brightness_threshold)])
        rural_weights == [u \in SeqSet(urban) |->
                             rural_weights_of(table, u, rural, earth_radius,
                                              urban_nearby_radius)]
    IN  [df_urban |-> urban,
         df_rural |-> rural,
         rural_weights |-> rural_weights,
         df_urban_valid |->
            [s \in {u \in SeqSet(urban) : Cardinality(DOMAIN rural_weights[u]) > min_nearby_stations} |->
                [Latitude |-> table[s].Latitude,
                 Longitude |-> table[s].Longitude,
                 Value |-> table[s].Value,
                 series |-> table[s].series,
                 Rural_Station_Weights |-> rural_weights[s]]]]

\* mutant: the mapping is tested on the sum of its weights
calculate_rural_weights_sum(table, brightness_threshold, min_nearby_stations, earth_radius, urban_nearby_radius) ==
    LET urban == RowsWhere([s \in DOMAIN table |->
                               is_urban(table[s].Value, brightness_threshold)])
        rural == RowsWhere([s \in DOMAIN table |->
                               ~is_urban(table[s].Value, brightness_threshold)])
        rural_weights == [u \in SeqSet(urban) |->
                             rural_weights_of(table, u, rural, earth_radius,
                                              urban_nearby_radius)]
    IN  [df_urban |-> urban,
         df_rural |-> rural,
         rural_weights |-> rural_weights,
         df_urban_valid |->
            [s \in {u \in SeqSet(urban) : SumValues(rural_weights[u]) = One} |->
                [Latitude |-> table[s].Latitude,
                 Longitude |-> table[s].Longitude,
                 Value |-> table[s].Value,
                 series |-> table[s].series,
                 Rural_Station_Weights |-> rural_weights[s]]]]

\* The result holds, with the table returned (df_urban_valid: the urban rows
\* kept, each with its Rural_Station_Weights), the locals df_urban and
\* df_rural (ids in row order) and rural_weights (one mapping per urban row,
\* keyed by the id of the row as the column Rural_Station_Weights is).
calculate_rural_weights(table, brightness_threshold, min_nearby_stations, earth_radius, urban_nearby_radius) ==
    LET urban == RowsWhere([s \in DOMAIN table |->
                               is_urban(table[s].Value, brightness_threshold)])
        rural == RowsWhere([s \in DOMAIN table |->
                               ~is_urban(table[s].Value, brightness_threshold)])
        rural_weights == [u \in SeqSet(urban) |->
                             rural_weights_of(table, u, rural, earth_radius,
                                              urban_nearby_radius)]
    IN  [df_urban |-> urban,
         df_rural |-> rural,
         rural_weights |-> rural_weights,
         df_urban_valid |->
            [s \in {u \in SeqSet(urban) : Cardinality(DOMAIN rural_weights[u]) >= min_nearby_stations} |->
                [Latitude |-> table[s].Latitude,
                 Longitude |-> table[s].Longitude,
                 Value |-> table[s].Value,
                 series |-> table[s].series,
                 Rural_Station_Weights |-> rural_weights[s]]]]

\* rural_station_timeseries.multiply(weights, axis=0).sum(axis=0) for one
\* column: the weighted values of the rural stations added up, a missing
\* value skipped
RECURSIVE WeightedSum(_, _, _)
WeightedSum(weights_dict, table, column) ==
    IF DOMAIN weights_dict = {} THEN Zero
    ELSE LET k == CHOOSE x \in DOMAIN weights_dict : TRUE
             rest == WeightedSum([j \in DOMAIN weights_dict \ {k} |-> weights_dict[j]],
                                 table, column)
             v == table[k].series[column]
         IN  IF IsNaN(v) THEN rest ELSE RatAdd(RatMul(weights_dict[k], v), rest)

\* mutant: a sum of exactly 0.0 is kept
ZeroToNaN_keeps(x) == x

\* Series.replace(0.0, np.nan)
ZeroToNaN(x) == IF x = Zero THEN NaN ELSE x

\* mutant: every urban station is rewritten, the dropped ones with an empty mapping
adjust_urban_anomalies_all(table, df_urban_valid, brightness_threshold) ==
    [s \in DOMAIN table |->
        IF is_urban(table[s].Value, brightness_threshold)
        THEN LET w == IF s \in DOMAIN df_urban_valid
                      THEN df_urban_valid[s].Rural_Station_Weights
                      ELSE [k \in {} |-> Zero]
             IN  [table[s] EXCEPT !.series =
                    [c \in DOMAIN table[s].series |->
                        ZeroToNaN(WeightedSum(w, table, c))]]
        ELSE table[s]]

\* The month columns from start_year to end_year are the columns of the
\* series.  df_rural is taken from a copy of the table made before the loop,
\* and the loop writes urban rows only, so every row read is a row of the
\* table as it was passed.
adjust_urban_anomalies(table, df_urban_valid, brightness_threshold) ==
    [s \in DOMAIN table |->
        IF s \in DOMAIN df_urban_valid
        THEN [table[s] EXCEPT !.series =
                [c \in DOMAIN table[s].series |->
                    ZeroToNaN(WeightedSum(df_urban_valid[s].Rural_Station_Weights,
                                          table, c))]]
        ELSE table[s]]

-----------------------------------------------------------------------------
(* Program constants: parameters/constants.py *)

EARTH_RADIUS == 6371

NEARBY_STATION_RADIUS == 1200

URBAN_BRIGHTNESS_THRESHOLD == 10

MIN_NEARBY_RURAL_STATIONS == 3

URBAN_NEARBY_RADIUS == 50

-----------------------------------------------------------------------------
(* Bounds of the model *)

\* station ids (mapping keys) are 1 .. MaxKeys
MaxKeys == 3

\* rows of the station metadata table
MaxStations == 2

\* stations of the anomaly table of step 4
MaxRows == 3

\* month columns of a series
MaxCols == 2

\* latitudes and longitudes of the distance check divide their range in HavSteps
HavSteps == 4

-----------------------------------------------------------------------------
(* SpecNorm: normalize_dict_values applied once and twice to any mapping *)

Keys == 1 .. MaxKeys

\* raw values of a mapping: 0, 1/10 .. 4/10 as in the repository's test,
\* 1/2, 1 and a negative value
NormValues == {Zero, Rat(1, 10), Rat(1, 5), Rat(3, 10), Rat(2, 5), Rat(1, 2), One, Rat(-1, 2)}

Mappings(K, V) == UNION {[S -> V] : S \in SUBSET K}

InitNorm ==
    /\ pc = "start"
    /\ LaterNone
    /\ d \in Mappings(Keys, NormValues)
    /\ out = None
    /\ out2 = None
    /\ pt = None
    /\ distance = None
    /\ station_df = None
    /\ grid = None
    /\ nearby = None
    /\ df = None
    /\ args = None
    /\ weights4 = None
    /\ df4 = None

Normalize ==
    /\ pc = "start"
    /\ out' = normalize_dict_values(d)
    /\ pc' = "once"
    /\ UNCHANGED <<d, out2, havVars, step2Vars, step4Vars, laterVars>>

NormalizeAgain ==
    /\ pc = "once"
    /\ out2' = normalize_dict_values(out)
    /\ pc' = "twice"
    /\ UNCHANGED <<d, out, havVars, step2Vars, step4Vars, laterVars>>

NextNorm == Normalize \/ NormalizeAgain

SpecNorm == InitNorm /\ [][NextNorm]_vars

-----------------------------------------------------------------------------
(* SpecHav: haversine_distance between two points given in degrees, called *)
(* with radians (calculate_distances) and with the degrees themselves      *)
(* (nearby_stations, calculate_rural_weights)                              *)

HavLats == {Deg(-90) + i * (Deg(180) \div HavSteps) : i \in 0 .. HavSteps}

HavLons == {Deg(-180) + i * (Deg(360) \div HavSteps) : i \in 0 .. HavSteps}

HavRadii == {1, EARTH_RADIUS}

InitHav ==
    /\ pc = "start"
    /\ LaterNone
    /\ pt \in [lat1 : HavLats, lon1 : HavLons, lat2 : HavLats, lon2 : HavLons,
               earth_radius : HavRadii]
    /\ distance = None
    /\ d = None
    /\ out = None
    /\ out2 = None
    /\ station_df = None
    /\ grid = None
    /\ nearby = None
    /\ df = None
    /\ args = None
    /\ weights4 = None
    /\ df4 = None

\* utilities.py 92-107: the degrees are converted, then the distance is taken
DistanceOfRadians ==
    /\ pc = "start"
    /\ distance' = haversine_distance(Radians(pt.lat1), Radians(pt.lon1),
                                      Radians(pt.lat2), Radians(pt.lon2),
                                      pt.earth_radius)
    /\ pc' = "radians"
    /\ UNCHANGED <<pt, normVars, step2Vars, step4Vars, laterVars>>

\* step2.py 112-121: the coordinates are passed as they are
DistanceOfDegrees ==
    /\ pc = "start"
    /\ distance' = haversine_distance(pt.lat1, pt.lon1, pt.lat2, pt.lon2,
                                      pt.earth_radius)
    /\ pc' = "degrees"
    /\ UNCHANGED <<pt, normVars, step2Vars, step4Vars, laterVars>>

NextHav == DistanceOfRadians \/ DistanceOfDegrees

SpecHav == InitHav /\ [][NextHav]_vars

-----------------------------------------------------------------------------
(* SpecStep2: step2 = create_grid, then nearby_stations on the grid and the *)
(* station metadata.  nearby_stations treats the rows of grid_df one by one *)
(* and independently; the model follows the rows of the box numbers in     *)
(* GridSample.                                                             *)

\* box numbers followed: (88, 0), (0, 0), (0, 2), (90, 0) and (-90, 0)
GridSample == {0, 44 * 180, 44 * 180 + 1, 89 * 180, 89 * 180 + 1}

\* station coordinates in degrees (fixed point): at the centre of box 7920,
\* 0.1 and 0.1884 degrees north of it, at the centre of box 7921, one degree
\* from the north pole, and 19 degrees east of the centre of box 7920
StationSites ==
    { <<0, 0>>, <<1000, 0>>, <<1884, 0>>, <<0, Deg(2)>>, <<Deg(89), Deg(10)>>,
      <<0, Deg(19)>> }

\* the metadata tables: up to MaxStations rows, the ids 1, 2, ... in row order
StationTables ==
    UNION { { [j \in 1 .. n |->
                 [Station_ID |-> j, Latitude |-> f[j][1], Longitude |-> f[j][2]]]
              : f \in [1 .. n -> StationSites] }
            : n \in 0 .. MaxStations }

InitStep2 ==
    /\ pc = "start"
    /\ LaterNone
    /\ station_df \in StationTables
    /\ grid = None
    /\ nearby = None
    /\ d = None
    /\ out = None
    /\ out2 = None
    /\ pt = None
    /\ distance = None
    /\ df = None
    /\ args = None
    /\ weights4 = None
    /\ df4 = None

CreateGrid ==
    /\ pc = "start"
    /\ grid' = create_grid
    /\ pc' = "grid"
    /\ UNCHANGED <<station_df, nearby, normVars, havVars, step4Vars, laterVars>>

NearbyStations ==
    /\ pc = "grid"
    /\ nearby' = nearby_stations(grid, GridSample, station_df,
                                 NEARBY_STATION_RADIUS, EARTH_RADIUS)
    /\ pc' = "step2"
    /\ UNCHANGED <<station_df, grid, normVars, havVars, step4Vars, laterVars>>

NextStep2 == CreateGrid \/ NearbyStations

SpecStep2 == InitStep2 /\ [][NextStep2]_vars

-----------------------------------------------------------------------------
(* SpecStep4: calculate_rural_weights, then adjust_urban_anomalies, on an   *)
(* anomaly table that carries the brightness column                        *)

\* station coordinates in degrees (fixed point): a place, 0.004 and 0.0078
\* degrees north of it, and 0.3 degrees north of it
UrbanSites ==
    { <<Deg(10), Deg(20)>>, <<Deg(10) + 40, Deg(20)>>, <<Deg(10) + 78, Deg(20)>>,
      <<Deg(10) + 3000, Deg(20)>> }

\* brightness values below, at and above the default threshold
BrightnessValues ==
    {URBAN_BRIGHTNESS_THRESHOLD - 5, URBAN_BRIGHTNESS_THRESHOLD,
     URBAN_BRIGHTNESS_THRESHOLD + 5}

\* the anomaly series of the stations: all present and different; the first
\* month missing and the others i - 2 (a zero among them); alternately 1 and
\* -1 in the odd months and missing in the even ones; the first month
\* missing at the even stations only
SeriesTables ==
    { [i \in 1 .. MaxRows |-> [c \in 1 .. MaxCols |-> <<i * c, 1>>]],
      [i \in 1 .. MaxRows |-> [c \in 1 .. MaxCols |->
            IF c = 1 THEN NaN ELSE <<i - 2, 1>>]],
      [i \in 1 .. MaxRows |-> [c \in 1 .. MaxCols |->
            IF c % 2 = 0 THEN NaN ELSE IF i % 2 = 1 THEN <<1, 1>> ELSE <<-1, 1>>]],
      [i \in 1 .. MaxRows |-> [c \in 1 .. MaxCols |->
            IF c = 1 /\ i % 2 = 0 THEN NaN ELSE <<i * c, 1>>]] }

InitStep4 ==
    /\ pc = "start"
    /\ LaterNone
    /\ \E place \in [1 .. MaxRows -> UrbanSites] :
       \E value \in [1 .. MaxRows -> BrightnessValues] :
       \E series \in SeriesTables :
          df = [s \in 1 .. MaxRows |->
                  [Latitude |-> place[s][1], Longitude |-> place[s][2],
                   Value |-> value[s], series |-> series[s]]]
    /\ args \in [brightness_threshold : {URBAN_BRIGHTNESS_THRESHOLD},
                 min_nearby_stations : 1 .. MIN_NEARBY_RURAL_STATIONS,
                 urban_nearby_radius : {URBAN_NEARBY_RADIUS}]
    /\ weights4 = None
    /\ df4 = None
    /\ d = None
    /\ out = None
    /\ out2 = None
    /\ pt = None
    /\ distance = None
    /\ station_df = None
    /\ grid = None
    /\ nearby = None

CalculateRuralWeights ==
    /\ pc = "start"
    /\ weights4' = calculate_rural_weights(df, args.brightness_threshold,
                                           args.min_nearby_stations, EARTH_RADIUS,
                                           args.urban_nearby_radius)
    /\ pc' = "weights"
    /\ UNCHANGED <<df, args, df4, normVars, havVars, step2Vars, laterVars>>

AdjustUrbanAnomalies ==
    /\ pc = "weights"
    /\ df4' = adjust_urban_anomalies(df, weights4.df_urban_valid,
                                     args.brightness_threshold)
    /\ pc' = "adjusted"
    /\ UNCHANGED <<df, args, weights4, normVars, havVars, step2Vars, laterVars>>

NextStep4 == CalculateRuralWeights \/ AdjustUrbanAnomalies

SpecStep4 == InitStep4 /\ [][NextStep4]_vars

-----------------------------------------------------------------------------
(* Claims about normalize_dict_values *)

IsNormalized == pc \in {"once", "twice"}

\* C1 as stated: whenever normalize_dict_values returns a non-empty mapping,
\* the values of the returned mapping sum to 1.
C1_AsStated == (IsNormalized /\ DOMAIN out # {}) => SumValues(out) = One

\* C1, amended: whenever the values of the input sum to a non-zero total, the
\* values of the returned mapping sum to 1; a mapping whose values sum to 0
\* is returned with the sum 0.
C1_SumIsOne ==
    IsNormalized =>
        /\ SumValues(d) # Zero => SumValues(out) = One
        /\ SumValues(d) = Zero => SumValues(out) = Zero

\* a mapping of three values of sum 3/5 has been normalised
C1_Witness ==
    /\ IsNormalized
    /\ Cardinality(DOMAIN d) = MaxKeys
    /\ SumValues(d) = Rat(3, 5)

\* C2: when the values of the input sum to 0 (the empty mapping included),
\* normalize_dict_values returns the input: same keys, same values.
C2_ZeroSumUnchanged ==
    (IsNormalized /\ SumValues(d) = Zero) => out = d

\* a non-empty mapping of sum 0 with a non-zero value has been normalised
C2_Witness ==
    /\ IsNormalized
    /\ SumValues(d) = Zero
    /\ \E k \in DOMAIN d : d[k] # Zero

\* C3: a mapping whose values sum to 1 is returned unchanged, one whose
\* non-zero sum differs from 1 is changed, the keys are kept, and normalising
\* the result again changes nothing.
C3_Idempotent ==
    /\ IsNormalized =>
        /\ DOMAIN out = DOMAIN d
        /\ SumValues(d) = One => out = d
        /\ SumValues(d) \notin {Zero, One} => out # d
    /\ pc = "twice" => out2 = out

\* a mapping of sum 2 has been normalised twice
C3_Witness ==
    /\ pc = "twice"
    /\ SumValues(d) = <<2, 1>>
    /\ out # d

-----------------------------------------------------------------------------
(* Claims about haversine_distance *)

\* C4: the haversine distance of a point to itself is exactly 0, for any valid
\* coordinate and any earth radius > 0.
C4_SelfDistanceZero ==
    (pc \in {"radians", "degrees"} /\ pt.lat1 = pt.lat2 /\ pt.lon1 = pt.lon2)
        => distance = 0

\* the distance of a point off the equator and off the poles to itself
C4_Witness ==
    /\ pc \in {"radians", "degrees"}
    /\ pt.lat1 = pt.lat2
    /\ pt.lon1 = pt.lon2
    /\ pt.lat1 \notin {0, Deg(90), Deg(-90)}
    /\ pt.lon1 # 0
    /\ pt.earth_radius = EARTH_RADIUS
    /\ distance = 0

-----------------------------------------------------------------------------
(* Claims about step 2 *)

\* (lat, lon) is a cell of the regular lattice, lat in 88, 86, ..., -88 and
\* lon in 0, 2, ..., 358, or one of the polar cells (90, 0) and (-90, 0)
IsLatticeCell(lat, lon) ==
    /\ lat % Deg(2) = 0
    /\ lon % Deg(2) = 0
    /\ Deg(-88) <= lat
    /\ lat <= Deg(88)
    /\ 0 <= lon
    /\ lon <= Deg(358)

IsPolarCell(lat, lon) == Abs(lat) = Deg(90) /\ lon = 0

CentreDistance(row, st) ==
    GeoDistance(row.Lat, row.Lon, st.Latitude, st.Longitude, EARTH_RADIUS)

\* C6 as stated: for every grid cell and every station, the station is a key
\* of the cell's mapping if and only if its distance to the cell centre is
\* <= max_distance, and the weight before normalisation of an included
\* station is 1 - distance / max_distance, in [0, 1].
C6_AsStated ==
    pc = "step2" =>
        \A b \in DOMAIN nearby : \A j \in 1 .. Len(station_df) :
            LET st == station_df[j]
                dist == CentreDistance(grid[b + 1], st)
                kept == st.Station_ID \in DOMAIN nearby[b].Nearby_Stations
            IN  /\ kept <=> dist <= NEARBY_STATION_RADIUS
                /\ kept =>
                     /\ nearby[b].weights[st.Station_ID]
                          = RatSub(One, Rat(dist, NEARBY_STATION_RADIUS))
                     /\ RatLeq(Zero, nearby[b].weights[st.Station_ID])
                     /\ RatLeq(nearby[b].weights[st.Station_ID], One)

\* C7 as stated: after nearby_stations every cell's mapping is either empty
\* or has non-negative values that sum to 1, and it is empty exactly when no
\* station lies within the radius of the cell centre.
C7_AsStated ==
    pc = "step2" =>
        \A b \in DOMAIN nearby :
            LET m == nearby[b].Nearby_Stations
            IN  /\ \/ DOMAIN m = {}
                   \/ /\ \A k \in DOMAIN m : RatLeq(Zero, m[k])
                      /\ SumValues(m) = One
                /\ DOMAIN m = {} <=>
                     \A j \in 1 .. Len(station_df) :
                        CentreDistance(grid[b + 1], station_df[j])
                            > NEARBY_STATION_RADIUS

\* What nearby_stations does satisfy: the statement of C6 with the number
\* haversine_distance returned for the unconverted coordinates in place of
\* the distance to the cell centre
NearbyOfReturnedNumber ==
    pc = "step2" =>
        \A b \in DOMAIN nearby : \A j \in 1 .. Len(station_df) :
            LET st == station_df[j]
                dist == nearby[b].distances[j]
                kept == st.Station_ID \in DOMAIN nearby[b].Nearby_Stations
            IN  /\ kept <=> dist <= NEARBY_STATION_RADIUS
                /\ kept =>
                     /\ nearby[b].weights[st.Station_ID]
                          = RatSub(One, Rat(dist, NEARBY_STATION_RADIUS))
                     /\ RatLeq(Zero, nearby[b].weights[st.Station_ID])
                     /\ RatLeq(nearby[b].weights[st.Station_ID], One)

-----------------------------------------------------------------------------
(* Claims about step 4 *)

\* C8: a station is classified urban if and only if its brightness value is
\* strictly greater than the threshold; a station at the threshold is rural,
\* and every station is in exactly one of the two classes.
C8_UrbanIffBrighter ==
    pc \in {"weights", "adjusted"} =>
        /\ \A s \in DOMAIN df :
              /\ s \in SeqSet(weights4.df_urban)
                    <=> df[s].Value > args.brightness_threshold
              /\ s \in SeqSet(weights4.df_rural)
                    <=> df[s].Value <= args.brightness_threshold
        /\ SeqSet(weights4.df_urban) \cap SeqSet(weights4.df_rural) = {}
        /\ SeqSet(weights4.df_urban) \cup SeqSet(weights4.df_rural) = DOMAIN df

\* stations below, at and above the threshold have been classified
C8_Witness ==
    /\ pc = "weights"
    /\ \E s \in SeqSet(weights4.df_rural) : df[s].Value = args.brightness_threshold
    /\ \E s \in SeqSet(weights4.df_rural) : df[s].Value < args.brightness_threshold
    /\ \E s \in SeqSet(weights4.df_urban) : df[s].Value > args.brightness_threshold

\* the mapping calculate_rural_weights built for the urban station s
MappingOf(s) == weights4.rural_weights[s]

PresentNeighbours(w, c) == {k \in DOMAIN w : ~IsNaN(df[k].series[c])}

\* the sum, over the present neighbours of w, of weight times value
NeighbourSum(w, c) ==
    SumValues([k \in PresentNeighbours(w, c) |-> RatMul(w[k], df[k].series[c])])

\* the weighted mean of the values the neighbours of w have in column c:
\* the weighted sum divided by the sum of the weights of the values that
\* went into it; missing when there is nothing to divide by
NeighbourMean(w, c) ==
    LET total == SumValues([k \in PresentNeighbours(w, c) |-> w[k]])
    IN  IF total = Zero THEN NaN ELSE RatDiv(NeighbourSum(w, c), total)

\* C11: for every retained urban station and month column the value written
\* by adjust_urban_anomalies is the weighted sum of its rural neighbours'
\* values under the normalised weights, and that sum is the weighted mean of
\* those values (a value of exactly 0 written as missing, as step 4 says).
C11_AsStated ==
    pc = "adjusted" =>
        \A s \in DOMAIN weights4.df_urban_valid :
            \A c \in DOMAIN df[s].series :
                df4[s].series[c] = ZeroToNaN(NeighbourMean(MappingOf(s), c))

\* C12: a retained urban station's value for a month is missing if and only
\* if the weighted sum of its rural neighbours for that month is exactly 0;
\* when all its neighbours are missing that month it is missing, never 0.
C12_MissingIffZeroSum ==
    pc = "adjusted" =>
        \A s \in DOMAIN weights4.df_urban_valid :
            \A c \in DOMAIN df[s].series :
                /\ IsNaN(df4[s].series[c]) <=> NeighbourSum(MappingOf(s), c) = Zero
                /\ PresentNeighbours(MappingOf(s), c) = {} =>
                      /\ IsNaN(df4[s].series[c])
                      /\ df4[s].series[c] # Zero
                /\ ~IsNaN(df4[s].series[c]) =>
                      df4[s].series[c] = NeighbourSum(MappingOf(s), c)

\* a retained urban station with neighbours has a month in which all of them
\* are missing and a month in which a present neighbour gives a non-zero sum
C12_Witness ==
    /\ pc = "adjusted"
    /\ \E s \in DOMAIN weights4.df_urban_valid :
          /\ DOMAIN MappingOf(s) # {}
          /\ \E c \in DOMAIN df[s].series :
                /\ PresentNeighbours(MappingOf(s), c) = {}
                /\ IsNaN(df4[s].series[c])
          /\ \E c \in DOMAIN df[s].series :
                /\ PresentNeighbours(MappingOf(s), c) # {}
                /\ ~IsNaN(df4[s].series[c])

\* C13: an urban station without at least the minimum number of nearby rural
\* stations is discarded by step 4: it is not in the table step4 returns.
C13_AsStated ==
    pc = "adjusted" =>
        \A s \in SeqSet(weights4.df_urban) :
            Cardinality(DOMAIN MappingOf(s)) < args.min_nearby_stations =>
                s \notin DOMAIN df4

-----------------------------------------------------------------------------
(* Step 3 as main/run.py calls it: the anomalies of one station and one
   calendar month, a series with one value per year of the analysis range *)

\* the number of years with a value that the baseline range needs
ENOUGH_BASELINE_DATA == 20

\* the years of a range that have a value
ValidYears(series, first, last) == {y \in first .. last : ~IsNaN(series[y])}

\* the values the series has in a range, added up
RECURSIVE SumOver(_, _, _)
SumOver(series, first, last) ==
    IF last < first THEN Zero
    ELSE IF first = last
         THEN (IF IsNaN(series[first]) THEN Zero ELSE series[first])
    ELSE RatAdd(SumOver(series, first, (first + last) \div 2),
                SumOver(series, ((first + last) \div 2) + 1, last))

\* the mean of the values the series has in a range, missing without any
MeanOver(series, first, last) ==
    LET valid == ValidYears(series, first, last)
    IN  IF valid = {} THEN NaN
        ELSE RatDiv(SumOver(series, first, last), <<Cardinality(valid), 1>>)

\* mutant: the baseline mean needs more than 20 values
reference_mean_above(series, baseline_start, baseline_end) ==
    IF Cardinality(ValidYears(series, baseline_start, baseline_end))
            > ENOUGH_BASELINE_DATA
    THEN MeanOver(series, baseline_start, baseline_end)
    ELSE MeanOver(series, 1, Len(series))

\* the mean the anomalies are taken against
reference_mean(series, baseline_start, baseline_end) ==
    IF Cardinality(ValidYears(series, baseline_start, baseline_end))
            >= ENOUGH_BASELINE_DATA
    THEN MeanOver(series, baseline_start, baseline_end)
    ELSE MeanOver(series, 1, Len(series))

\* value - mean for every year, a missing value stays missing
calculate_anomalies(series, baseline_start, baseline_end) ==
    LET mean == CHOOSE m \in { reference_mean(series, baseline_start,
                                              baseline_end) } : TRUE
    IN  [y \in 1 .. Len(series) |->
            IF IsNaN(series[y]) \/ IsNaN(mean) THEN NaN
            ELSE RatSub(series[y], mean)]

\* the years of the analysis range
MaxYears == 22

\* the baseline ranges of the runs, first and last year
BaselineRanges == {<<1, 20>>, <<2, 21>>, <<1, 21>>}

\* the years without a value: none, one or two
MissingYears == {{}} \cup {{a, b} : a, b \in 1 .. MaxYears}

\* the values of the years: rising, and going up and down
YearValues ==
    { [y \in 1 .. MaxYears |-> <<y, 1>>],
      [y \in 1 .. MaxYears |-> <<((y * y) % 7) - 3, 1>>] }

InitStep3 ==
    /\ pc = "start"
    /\ \E values \in YearValues :
       \E missing \in MissingYears :
       \E range \in BaselineRanges :
          step1_output =
              [series |-> [y \in 1 .. MaxYears |->
                              IF y \in missing THEN NaN ELSE values[y]],
               BASELINE_START_YEAR |-> range[1],
               BASELINE_END_YEAR |-> range[2]]
    /\ step3_output = None
    /\ EarlierNone /\ LastNone
    /\ GridAnomalyNone /\ CombineNone /\ Step1None /\ FarNone /\ DistancesNone

Step3 ==
    /\ pc = "start"
    /\ step3_output' = calculate_anomalies(step1_output.series,
                                           step1_output.BASELINE_START_YEAR,
                                           step1_output.BASELINE_END_YEAR)
    /\ pc' = "anomalies"
    /\ UNCHANGED <<step1_output, earlierVars, gridAnomalyVars, combineVars,
                   step1Vars, farVars, distancesVars, lastVars>>

NextStep3 == Step3

SpecStep3 == InitStep3 /\ [][NextStep3]_vars

\* the number of baseline values of the series of the run
BaselineCount ==
    Cardinality(ValidYears(step1_output.series, step1_output.BASELINE_START_YEAR,
                           step1_output.BASELINE_END_YEAR))

\* the mean of the baseline values of the series of the run
BaselineMean ==
    MeanOver(step1_output.series, step1_output.BASELINE_START_YEAR,
             step1_output.BASELINE_END_YEAR)

\* the mean of all the values of the series of the run
FullMean == MeanOver(step1_output.series, 1, Len(step1_output.series))

\* C14: with n the number of baseline values of a station and month, every
\* value has the anomaly value - baseline mean when n >= 20 and
\* value - mean of all the values when n < 20
C14_BaselineOrFullMean ==
    pc = "anomalies" =>
        \A y \in 1 .. Len(step1_output.series) :
            ~IsNaN(step1_output.series[y]) =>
                step3_output[y] =
                    RatSub(step1_output.series[y],
                           IF BaselineCount >= 20 THEN BaselineMean ELSE FullMean)

\* a series with exactly 20 baseline values whose two means differ
C14_Witness ==
    /\ pc = "anomalies"
    /\ BaselineCount = 20
    /\ BaselineMean # FullMean
    /\ \E y \in 1 .. Len(step1_output.series) : ~IsNaN(step3_output[y])

\* a series with exactly 19 baseline values is measured against the mean of
\* all its values
C14_Nineteen ==
    /\ pc = "anomalies"
    /\ BaselineCount = 19
    /\ BaselineMean # FullMean

-----------------------------------------------------------------------------
(* steps/step6.py: calculate_grid_anomalies *)

\* anomaly_df.loc[anomaly_df.index.isin(station_dict.keys())]: the entries of
\* the mapping whose station is a row of the table
stations_in_table(station_dict, table) ==
    [k \in DOMAIN station_dict \cap DOMAIN table |-> station_dict[k]]

\* mutant: a sum of exactly 0.0 stays in the row
grid_row_keeps_zero(table, station_dict, columns) ==
    LET weights_dict == CHOOSE w \in { stations_in_table(station_dict, table) } : TRUE
    IN  [c \in columns |-> WeightedSum(weights_dict, table, c)]

\* the rows of the stations of the mapping, each times its weight, added up
\* column by column (DataFrame.sum skips the missing values), 0.0 replaced by
\* missing
grid_row(table, station_dict, columns) ==
    LET weights_dict == CHOOSE w \in { stations_in_table(station_dict, table) } : TRUE
    IN  [c \in columns |-> ZeroToNaN(WeightedSum(weights_dict, table, c))]

\* Row i of the sequence is the row of index i - 1, as in the grid table.
calculate_grid_anomalies(table, grid_table, columns) ==
    [i \in 1 .. Len(grid_table) |->
        [series |-> grid_row(table, grid_table[i].Nearby_Stations, columns),
         Latitude |-> grid_table[i].Latitude,
         Longitude |-> grid_table[i].Longitude]]

\* the number of grid cells of the runs
MaxCells == 2

\* the weight mappings of a cell: empty, one station, two and three stations,
\* and one with a station that the anomaly table does not have
CellMappings ==
    { <<>>,
      (1 :> One),
      (1 :> <<1, 2>>) @@ (2 :> <<1, 2>>),
      (2 :> <<1, 3>>) @@ (3 :> <<2, 3>>),
      (1 :> <<1, 4>>) @@ (2 :> <<1, 4>>) @@ (3 :> <<1, 2>>),
      (3 :> <<1, 2>>) @@ (MaxRows + 1 :> <<1, 2>>) }

InitGridAnomaly ==
    /\ pc = "start"
    /\ \E series \in SeriesTables :
          df_trimmed = [s \in 1 .. MaxRows |->
                          [Latitude |-> Deg(s), Longitude |-> Deg(2 * s),
                           series |-> series[s]]]
    /\ \E mapping \in [1 .. MaxCells -> CellMappings] :
          df_grid = [i \in 1 .. MaxCells |->
                       [Latitude |-> Deg(88 - 2 * i), Longitude |-> Deg(2 * i),
                        Nearby_Stations |-> mapping[i]]]
    /\ grid_anomaly = None
    /\ EarlierNone /\ LastNone
    /\ Step3None /\ CombineNone /\ Step1None /\ FarNone /\ DistancesNone

CalculateGridAnomalies ==
    /\ pc = "start"
    /\ grid_anomaly' = calculate_grid_anomalies(df_trimmed, df_grid, 1 .. MaxCols)
    /\ pc' = "grid_anomaly"
    /\ UNCHANGED <<df_trimmed, df_grid, earlierVars, step3Vars, combineVars,
                   step1Vars, farVars, distancesVars, lastVars>>

NextGridAnomaly == CalculateGridAnomalies

SpecGridAnomaly == InitGridAnomaly /\ [][NextGridAnomaly]_vars

\* the stations of a cell's mapping that have a value in column c
PresentStations(w, c) ==
    {k \in DOMAIN w \cap DOMAIN df_trimmed : ~IsNaN(df_trimmed[k].series[c])}

\* the weighted mean of the values the stations of the mapping have in column
\* c: the sum of weight * value divided by the sum of the weights of the
\* values added up; missing when there is nothing to divide by
StationMean(w, c) ==
    LET present == PresentStations(w, c)
        total == SumValues([k \in present |-> w[k]])
    IN  IF total = Zero THEN NaN
        ELSE RatDiv(SumValues([k \in present |->
                                  RatMul(w[k], df_trimmed[k].series[c])]), total)

\* C15: calculate_grid_anomalies returns one row per grid cell, indexed by
\* the cell number, whose value in every time column is the weighted mean of
\* the values of the stations of the cell's mapping, an exactly-0.0 value
\* replaced by missing; the row of a cell with an empty mapping is all missing
C15_AsStated ==
    pc = "grid_anomaly" =>
        /\ DOMAIN grid_anomaly = 1 .. Len(df_grid)
        /\ \A i \in 1 .. Len(df_grid) : \A c \in 1 .. MaxCols :
              grid_anomaly[i].series[c] =
                  ZeroToNaN(StationMean(df_grid[i].Nearby_Stations, c))

\* C15, what the code does: the value is the sum of weight * value over the
\* stations of the mapping that have a value, which falls short of the
\* weighted mean whenever a station of the mapping has none
C15_SumOfPresent ==
    pc = "grid_anomaly" =>
        /\ DOMAIN grid_anomaly = 1 .. Len(df_grid)
        /\ \A i \in 1 .. Len(df_grid) : \A c \in 1 .. MaxCols :
              LET w == df_grid[i].Nearby_Stations
              IN  /\ grid_anomaly[i].series[c] =
                        ZeroToNaN(SumValues([k \in PresentStations(w, c) |->
                                      RatMul(w[k], df_trimmed[k].series[c])]))
                  /\ DOMAIN w = {} => IsNaN(grid_anomaly[i].series[c])

-----------------------------------------------------------------------------
(* steps/step6.py: combine_land_ocean_anomalies.  A field gives every grid
   point its series, one value per month from the common first month on. *)

\* ds.isnull().sum(dim="time"): the number of missing values of a series
RECURSIVE null_count(_, _)
null_count(series, n) ==
    IF n = 0 THEN 0
    ELSE null_count(series, n - 1) + (IF IsNaN(series[n]) THEN 1 ELSE 0)

\* ds_land.sel(time=slice(None, last_date_ocean)): the land series up to the
\* last month of the ocean series
sel_until(series, time_length) == SubSeq(series, 1, Min(Len(series), time_length))

\* mutant: the weight is the share of the missing values
nan_weight_share(series, time_length) ==
    Rat(null_count(series, Len(series)), time_length)

\* 1 - (nan / time_length)
nan_weight(series, time_length) ==
    RatSub(One, Rat(null_count(series, Len(series)), time_length))

\* ds * weight: a missing value stays missing
weighted(x, weight) == IF IsNaN(x) THEN NaN ELSE RatMul(x, weight)

\* fillna(0)
fillna(x) == IF IsNaN(x) THEN Zero ELSE x

\* mutant: a sum of exactly 0.0 stays in the field
where_nonzero_keeps(x) == x

\* ds_combined.where(ds_combined != 0.0, np.nan)
where_nonzero(x) == IF x # Zero THEN x ELSE NaN

\* the series of one grid point; the sum of two fields has the months both
\* of them have
combine_series(land, ocean) ==
    LET time_length == Len(ocean)
        land_until == sel_until(land, time_length)
        ocean_weight == CHOOSE w \in { nan_weight(ocean, time_length) } : TRUE
        land_weight == CHOOSE w \in { nan_weight(land_until, time_length) } : TRUE
    IN  [t \in 1 .. Min(Len(land_until), time_length) |->
            where_nonzero(RatAdd(fillna(weighted(land_until[t], land_weight)),
                                 fillna(weighted(ocean[t], ocean_weight))))]

combine_land_ocean_anomalies(land_field, ocean_field) ==
    [p \in DOMAIN land_field \cap DOMAIN ocean_field |->
        combine_series(land_field[p], ocean_field[p])]

\* the grid points of the fields and the months of the ocean series
MaxPoints == 1

MaxTimes == 2

\* the land values: calculate_grid_anomalies has replaced every 0.0 by missing
LandValues == {NaN, One, <<-1, 1>>}

OceanValues == {NaN, Zero, <<-1, 1>>}

\* the series of at least one and of one month less, as many, or one month
\* more than the ocean series
LandSeries ==
    UNION { [1 .. n -> LandValues] : n \in Max(1, MaxTimes - 1) .. MaxTimes + 1 }

InitCombine ==
    /\ pc = "start"
    /\ ds_land \in [1 .. MaxPoints -> LandSeries]
    /\ ds_ocean \in [1 .. MaxPoints -> [1 .. MaxTimes -> OceanValues]]
    /\ ds_anomaly = None
    /\ EarlierNone /\ LastNone
    /\ Step3None /\ GridAnomalyNone /\ Step1None /\ FarNone /\ DistancesNone

CombineLandOceanAnomalies ==
    /\ pc = "start"
    /\ ds_anomaly' = combine_land_ocean_anomalies(ds_land, ds_ocean)
    /\ pc' = "combined"
    /\ UNCHANGED <<ds_land, ds_ocean, earlierVars, step3Vars, gridAnomalyVars,
                   step1Vars, farVars, distancesVars, lastVars>>

NextCombine == CombineLandOceanAnomalies

SpecCombine == InitCombine /\ [][NextCombine]_vars

\* the weights of a grid point of the run
LandWeight(p) == nan_weight(sel_until(ds_land[p], Len(ds_ocean[p])), Len(ds_ocean[p]))

OceanWeight(p) == nan_weight(ds_ocean[p], Len(ds_ocean[p]))

\* land * landWeight + ocean * oceanWeight at a grid point and month, a
\* missing value contributing 0
BlendSum(p, t) ==
    RatAdd(IF IsNaN(ds_land[p][t]) THEN Zero
           ELSE RatMul(ds_land[p][t], LandWeight(p)),
           IF IsNaN(ds_ocean[p][t]) THEN Zero
           ELSE RatMul(ds_ocean[p][t], OceanWeight(p)))

\* C16: at every grid point and month of the combined field the value is
\* land * landWeight + ocean * oceanWeight, a missing land or ocean value
\* contributing 0, and it is missing exactly when that sum is exactly 0.0
C16_BlendIsWeightedSum ==
    pc = "combined" =>
        \A p \in DOMAIN ds_anomaly : \A t \in DOMAIN ds_anomaly[p] :
            /\ IsNaN(ds_anomaly[p][t]) <=> BlendSum(p, t) = Zero
            /\ ~IsNaN(ds_anomaly[p][t]) => ds_anomaly[p][t] = BlendSum(p, t)

\* a month with a land and an ocean value whose weighted sum is not 0.0, and a
\* month whose two weighted values cancel
C16_Witness ==
    /\ pc = "combined"
    /\ \E p \in DOMAIN ds_anomaly : \E t, u \in DOMAIN ds_anomaly[p] :
          /\ ~IsNaN(ds_land[p][t]) /\ ~IsNaN(ds_ocean[p][t])
          /\ ~IsNaN(ds_anomaly[p][t])
          /\ ~IsNaN(ds_land[p][u]) /\ ~IsNaN(ds_ocean[p][u])
          /\ IsNaN(ds_anomaly[p][u])

\* a grid point whose land series has a value in every month and whose ocean
\* series has none
LandOnly(p) ==
    /\ \A t \in DOMAIN ds_land[p] : ~IsNaN(ds_land[p][t])
    /\ \A t \in DOMAIN ds_ocean[p] : IsNaN(ds_ocean[p][t])

\* C17: at a grid point whose land series has a value in every month and
\* whose ocean series is missing in every month, the combined value of every
\* month is exactly the land value
C17_LandOnlyIsLand ==
    pc = "combined" =>
        \A p \in DOMAIN ds_anomaly :
            LandOnly(p) =>
                \A t \in DOMAIN ds_anomaly[p] : ds_anomaly[p][t] = ds_land[p][t]

\* such a grid point, with a combined series as long as the ocean series
C17_Witness ==
    /\ pc = "combined"
    /\ \E p \in DOMAIN ds_anomaly :
          /\ LandOnly(p)
          /\ Len(ds_anomaly[p]) = Len(ds_ocean[p])
          /\ \E t \in DOMAIN ds_anomaly[p] : ds_anomaly[p][t] = <<-1, 1>>

-----------------------------------------------------------------------------
(* steps/step1.py: filter_coordinates.  The coordinates are floats in
   degrees, NaN among them. *)

\* x >= y and x <= y of floats: false when either is NaN
FloatGeq(x, y) == ~IsNaN(x) /\ ~IsNaN(y) /\ RatLeq(y, x)

FloatLeq(x, y) == ~IsNaN(x) /\ ~IsNaN(y) /\ RatLeq(x, y)

\* mutant: the ends of the two ranges are left out
filter_coordinates_open(table) ==
    LET lat_condition == [s \in DOMAIN table |->
            ~FloatLeq(table[s].Latitude, <<-90, 1>>)
            /\ ~FloatGeq(table[s].Latitude, <<90, 1>>)]
        lon_condition == [s \in DOMAIN table |->
            ~FloatLeq(table[s].Longitude, <<-180, 1>>)
            /\ ~FloatGeq(table[s].Longitude, <<180, 1>>)]
    IN  [s \in {x \in DOMAIN table : lat_condition[x] /\ lon_condition[x]} |->
            table[s]]

\* df.loc[lat_condition & lon_condition]: the rows of the stations that meet
\* both conditions, under their station ids
filter_coordinates(table) ==
    LET lat_condition == [s \in DOMAIN table |->
            FloatGeq(table[s].Latitude, <<-90, 1>>)
            /\ FloatLeq(table[s].Latitude, <<90, 1>>)]
        lon_condition == [s \in DOMAIN table |->
            FloatGeq(table[s].Longitude, <<-180, 1>>)
            /\ FloatLeq(table[s].Longitude, <<180, 1>>)]
    IN  [s \in {x \in DOMAIN table : lat_condition[x] /\ lon_condition[x]} |->
            table[s]]

\* latitudes and longitudes at, inside and outside the ends of the ranges
Latitudes == {NaN, <<-181, 2>>, <<-90, 1>>, <<90, 1>>, <<91, 1>>}

Longitudes == {NaN, <<-181, 1>>, <<-180, 1>>, Zero, <<180, 1>>, <<361, 2>>}

InitStep1 ==
    /\ pc = "start"
    /\ \E lat \in [1 .. MaxStations -> Latitudes] :
       \E lon \in [1 .. MaxStations -> Longitudes] :
          step0_output = [s \in 1 .. MaxStations |->
                            [Latitude |-> lat[s], Longitude |-> lon[s],
                             Station_Name |-> s]]
    /\ df_filtered_coords = None
    /\ EarlierNone /\ LastNone
    /\ Step3None /\ GridAnomalyNone /\ CombineNone /\ FarNone /\ DistancesNone

FilterCoordinates ==
    /\ pc = "start"
    /\ df_filtered_coords' = filter_coordinates(step0_output)
    /\ pc' = "filtered"
    /\ UNCHANGED <<step0_output, earlierVars, step3Vars, gridAnomalyVars,
                   combineVars, farVars, distancesVars, lastVars>>

NextStep1 == FilterCoordinates

SpecStep1 == InitStep1 /\ [][NextStep1]_vars

\* a latitude in [-90, 90] and a longitude in [-180, 180]
InRange(row) ==
    /\ ~IsNaN(row.Latitude) /\ ~IsNaN(row.Longitude)
    /\ -90 * row.Latitude[2] <= row.Latitude[1]
    /\ row.Latitude[1] <= 90 * row.Latitude[2]
    /\ -180 * row.Longitude[2] <= row.Longitude[1]
    /\ row.Longitude[1] <= 180 * row.Longitude[2]

\* C18: filter_coordinates returns exactly the stations whose latitude is in
\* [-90, 90] and whose longitude is in [-180, 180], their rows unchanged; a
\* station with a coordinate out of range is dropped, and the call returns
C18_KeepsValidCoordinates ==
    pc = "filtered" =>
        /\ DOMAIN df_filtered_coords =
              {s \in DOMAIN step0_output : InRange(step0_output[s])}
        /\ \A s \in DOMAIN df_filtered_coords :
              df_filtered_coords[s] = step0_output[s]

\* one station at the ends of both ranges is kept and another, out of range,
\* is dropped
C18_Witness ==
    /\ pc = "filtered"
    /\ \E s \in DOMAIN df_filtered_coords :
          /\ step0_output[s].Latitude = <<90, 1>>
          /\ step0_output[s].Longitude = <<-180, 1>>
    /\ \E s \in DOMAIN step0_output \ DOMAIN df_filtered_coords :
          step0_output[s].Latitude = <<91, 1>>

-----------------------------------------------------------------------------
(* The two haversine_distance functions on floats that may be NaN or
   infinite: tools/utilities.py (numpy) and steps/step3.py (math) *)

\* a float: a fixed-point number, NaN or infinity
Finite(x) == [kind |-> "finite", value |-> x]

NotANumber == [kind |-> "nan", value |-> 0]

Infinity == [kind |-> "inf", value |-> 0]

\* np.radians, math.radians: NaN and infinity pass through
FloatRadians(x) == IF x.kind = "finite" THEN Finite(Radians(x.value)) ELSE x

\* abs(y - x): NaN when either is NaN or both are infinite
FloatAbsDiff(y, x) ==
    IF x.kind = "nan" \/ y.kind = "nan" THEN NotANumber
    ELSE IF x.kind = "inf" /\ y.kind = "inf" THEN NotANumber
    ELSE IF x.kind = "inf" \/ y.kind = "inf" THEN Infinity
    ELSE Finite(Abs(y.value - x.value))

\* tools/utilities.py: np.sin and np.cos of NaN or infinity are NaN, and NaN
\* goes through np.clip, np.sqrt, np.arctan2 and the product; nothing raises
haversine_distance_of_floats(lat1, lon1, lat2, lon2, earth_radius) ==
    IF \A x \in {lat1, lon1, lat2, lon2} : x.kind = "finite"
    THEN Finite(haversine_distance(lat1.value, lon1.value, lat2.value, lon2.value,
                                   earth_radius))
    ELSE NotANumber

\* steps/step3.py: the arguments are degrees.  math.sin and math.cos raise on
\* infinity and math.sqrt on a negative number, which the except clause turns
\* into station_radius + 1; NaN goes through all of them
step3_haversine_distance(lat1, lon1, lat2, lon2, earth_radius, station_radius) ==
    LET rlat1 == FloatRadians(lat1)
        rlon1 == FloatRadians(lon1)
        rlat2 == FloatRadians(lat2)
        rlon2 == FloatRadians(lon2)
        dlat == FloatAbsDiff(rlat2, rlat1)
        dlon == FloatAbsDiff(rlon2, rlon1)
        angles == {dlat, rlat1, rlat2, dlon}
    IN  IF \E x \in angles : x.kind = "inf" THEN Finite(station_radius + 1)
        ELSE IF \E x \in angles : x.kind = "nan" THEN NotANumber
        ELSE LET s1 == Sin[dlat.value \div 2]
                 s2 == Sin[dlon.value \div 2]
                 a == s1 * s1 + Mul[Mul[Cos[rlat1.value], Cos[rlat2.value]], s2] * s2
             IN  IF a > Scale * Scale THEN Finite(station_radius + 1)
                 ELSE Finite((earth_radius * 2 * Atan2[Sqrt[a], Sqrt[Scale * Scale - a]]
                                + Scale \div 2) \div Scale)

\* coordinates in degrees, NaN and infinity among them
FloatCoordinates == {Finite(Deg(0)), Finite(Deg(45)), NotANumber, Infinity}

InitFar ==
    /\ pc = "start"
    /\ coordinates \in [lat1 : FloatCoordinates, lon1 : FloatCoordinates,
                        lat2 : FloatCoordinates, lon2 : FloatCoordinates]
    /\ far = None
    /\ EarlierNone /\ LastNone
    /\ Step3None /\ GridAnomalyNone /\ CombineNone /\ Step1None /\ DistancesNone

\* tools/utilities.py, called as calculate_distances calls it
HaversineOfUtilities ==
    /\ pc = "start"
    /\ far' = haversine_distance_of_floats(FloatRadians(coordinates.lat1),
                                           FloatRadians(coordinates.lon1),
                                           FloatRadians(coordinates.lat2),
                                           FloatRadians(coordinates.lon2),
                                           EARTH_RADIUS)
    /\ pc' = "utilities"
    /\ UNCHANGED <<coordinates, earlierVars, step3Vars, gridAnomalyVars,
                   combineVars, step1Vars, distancesVars, lastVars>>

HaversineOfStep3 ==
    /\ pc = "start"
    /\ far' = step3_haversine_distance(coordinates.lat1, coordinates.lon1,
                                       coordinates.lat2, coordinates.lon2,
                                       EARTH_RADIUS, NEARBY_STATION_RADIUS)
    /\ pc' = "step3"
    /\ UNCHANGED <<coordinates, earlierVars, step3Vars, gridAnomalyVars,
                   combineVars, step1Vars, distancesVars, lastVars>>

NextFar == HaversineOfUtilities \/ HaversineOfStep3

SpecFar == InitFar /\ [][NextFar]_vars

\* one of the four coordinates of the call is NaN or infinite
Undefined ==
    \E x \in {coordinates.lat1, coordinates.lon1, coordinates.lat2, coordinates.lon2} :
        x.kind # "finite"

\* C19: when the computation is numerically undefined (a NaN coordinate, for
\* one), haversine_distance returns a distance strictly greater than the
\* nearby radius in use
C19_AsStated ==
    (pc \in {"utilities", "step3"} /\ Undefined) =>
        far.kind = "finite" /\ far.value > NEARBY_STATION_RADIUS

-----------------------------------------------------------------------------
(* tools/utilities.py: calculate_distances *)

\* haversine_distance with the Series lat2, lon2: one distance per element
haversine_distance_series(lat1, lon1, lat2, lon2, earth_radius) ==
    [j \in 1 .. Len(lat2) |->
        haversine_distance(lat1, lon1, lat2[j], lon2[j], earth_radius)]

\* mutant: the longitudes of the second table are not used
calculate_distances_one_lon(table_1, table_2, earth_radius) ==
    LET lat_1 == [i \in 1 .. Len(table_1) |-> Radians(table_1[i].Latitude)]
        lon_1 == [i \in 1 .. Len(table_1) |-> Radians(table_1[i].Longitude)]
        lat_2 == [j \in 1 .. Len(table_2) |-> Radians(table_2[j].Latitude)]
    IN  [i \in 1 .. Len(table_1) |->
            haversine_distance_series(lat_1[i], lon_1[i], lat_2,
                                      [j \in 1 .. Len(table_2) |-> lon_1[i]],
                                      earth_radius)]

\* distances[i, :] = haversine_distance(lat_1[i], lon_1[i], lat_2, lon_2, R)
\* for every row i of the first table, all coordinates through np.radians
calculate_distances(table_1, table_2, earth_radius) ==
    LET lat_1 == [i \in 1 .. Len(table_1) |-> Radians(table_1[i].Latitude)]
        lon_1 == [i \in 1 .. Len(table_1) |-> Radians(table_1[i].Longitude)]
        lat_2 == [j \in 1 .. Len(table_2) |-> Radians(table_2[j].Latitude)]
        lon_2 == [j \in 1 .. Len(table_2) |-> Radians(table_2[j].Longitude)]
    IN  [i \in 1 .. Len(table_1) |->
            haversine_distance_series(lat_1[i], lon_1[i], lat_2, lon_2,
                                      earth_radius)]

\* places in degrees: on the equator a quarter turn apart, half way to the
\* north pole, and the south pole
DistanceSites ==
    { <<Deg(0), Deg(0)>>, <<Deg(0), Deg(90)>>, <<Deg(45), Deg(0)>>,
      <<Deg(-90), Deg(0)>> }

\* the tables of up to MaxStations rows
DistanceTables ==
    UNION { { [i \in 1 .. n |-> [Latitude |-> site[i][1], Longitude |-> site[i][2]]] :
                site \in [1 .. n -> DistanceSites] } : n \in 0 .. MaxStations }

InitDistances ==
    /\ pc = "start"
    /\ df_1 \in DistanceTables
    /\ df_2 \in DistanceTables
    /\ distance_matrix = None
    /\ EarlierNone /\ LastNone
    /\ Step3None /\ GridAnomalyNone /\ CombineNone /\ Step1None /\ FarNone

CalculateDistances ==
    /\ pc = "start"
    /\ distance_matrix' = calculate_distances(df_1, df_2, EARTH_RADIUS)
    /\ pc' = "distances"
    /\ UNCHANGED <<df_1, df_2, earlierVars, step3Vars, gridAnomalyVars,
                   combineVars, step1Vars, farVars, lastVars>>

NextDistances == CalculateDistances

SpecDistances == InitDistances /\ [][NextDistances]_vars

\* C20: calculate_distances(df_1, df_2, R) returns len(df_1) rows of
\* len(df_2) entries, entry [i][j] the haversine distance between the place
\* of row i of df_1 and the place of row j of df_2
C20_MatrixOfDistances ==
    pc = "distances" =>
        /\ Len(distance_matrix) = Len(df_1)
        /\ \A i \in 1 .. Len(df_1) :
              /\ Len(distance_matrix[i]) = Len(df_2)
              /\ \A j \in 1 .. Len(df_2) :
                    distance_matrix[i][j] =
                        GeoDistance(df_1[i].Latitude, df_1[i].Longitude,
                                    df_2[j].Latitude, df_2[j].Longitude,
                                    EARTH_RADIUS)

\* two tables of different lengths; the entry of two places a quarter turn
\* apart on the equator is a quarter of the circumference, 10007 km, and the
\* entry of a place and itself is 0
C20_Witness ==
    /\ pc = "distances"
    /\ Len(df_1) = 1 /\ Len(df_2) = 2
    /\ df_1[1] = [Latitude |-> Deg(0), Longitude |-> Deg(0)]
    /\ df_2[1] = [Latitude |-> Deg(0), Longitude |-> Deg(90)]
    /\ df_2[2] = df_1[1]
    /\ distance_matrix[1][1] \in 10000 .. 10015
    /\ distance_matrix[1][2] = 0

-----------------------------------------------------------------------------
(* main/run.py: main.  A step is a call that returns or raises; what a step
   computes is in the sections above. *)

\* the file main writes after a step has returned
output_file(step) ==
    CASE step = 0 -> "step0_output.csv"
      [] step = 1 -> "step1_output.csv"
      [] step = 2 -> "step2_output.csv"
      [] step = 3 -> "step3_output.csv"
      [] step = 4 -> "step4_output.csv"
      [] step = 5 -> "step5_output.nc"
      [] step = 6 -> "gistemp_result.nc"

OutputFiles == {output_file(step) : step \in 0 .. 6}

\* mutant: the results of an earlier run stay in the directory
rmtree_keeps(files) == files

\* shutil.rmtree("results/") and os.makedirs(results_dir): an empty directory
rmtree(files) == {}

\* mutant: step 2 is left out
next_step_without_grid(step, option) ==
    IF step = 1 THEN 3
    ELSE IF step = 3 /\ ~option THEN 5
    ELSE step + 1

\* the step main calls after a step has returned and its file is written;
\* step 4 only with the urban adjustment option, and 7 for the end of main
next_step(step, option) ==
    IF step = 3 /\ ~option THEN 5 ELSE step + 1

\* the position of main before the call of a step, and after the last one
position(step) ==
    CASE step = 0 -> "step0"
      [] step = 1 -> "step1"
      [] step = 2 -> "step2"
      [] step = 3 -> "step3"
      [] step = 4 -> "step4"
      [] step = 5 -> "step5"
      [] step = 6 -> "step6"
      [] OTHER -> "returned"

\* mutant: step 6 does not need the Value column
outcomes_any(step, table_of) == {"returns", "raises"}

\* What a call can do.  Steps 0 to 5 read from the network and files, so
\* they return or raise; step 6 drops the column "Value" first
\* (steps/step6.py 189), which only the table of step 4 has, and raises
\* KeyError on the table of step 3.
outcomes(step, table_of) ==
    IF step = 6 /\ table_of = "step3" THEN {"raises"} ELSE {"returns", "raises"}

InitMain ==
    /\ pc = "start"
    /\ urban_adjustment_option \in BOOLEAN
    /\ results_dir \in SUBSET OutputFiles
    /\ started = <<>>
    /\ logged = FALSE
    /\ step4_output = "unassigned"
    /\ EarlierNone
    /\ Step3None /\ GridAnomalyNone /\ CombineNone /\ Step1None /\ FarNone
    /\ DistancesNone
    /\ RulesNone /\ StationsNone /\ BrightnessNone

\* lines 112-140: the results directory is removed and made again
RemoveResults ==
    /\ pc = "start"
    /\ results_dir' = rmtree(results_dir)
    /\ pc' = position(0)
    /\ UNCHANGED <<urban_adjustment_option, started, logged, step4_output,
                   earlierVars, step3Vars, gridAnomalyVars, combineVars,
                   step1Vars, farVars, distancesVars, rulesVars, stationsVars,
                   brightnessVars>>

\* the call of a step and, when it returns, the write of its file and what
\* main does up to the next call; when it raises, the except clause
RunStep(step) ==
    /\ pc = position(step)
    /\ started' = Append(started, step)
    /\ \E outcome \in outcomes(step, step4_output) :
          IF outcome = "returns"
          THEN /\ results_dir' = results_dir \cup {output_file(step)}
               /\ step4_output' =
                     IF step = 4 THEN "step4"
                     ELSE IF step = 3 /\ ~urban_adjustment_option THEN "step3"
                     ELSE step4_output
               /\ pc' = position(next_step(step, urban_adjustment_option))
               /\ logged' = logged
          ELSE /\ logged' = TRUE
               /\ pc' = "returned"
               /\ UNCHANGED <<results_dir, step4_output>>
    /\ UNCHANGED <<urban_adjustment_option,
                   earlierVars, step3Vars, gridAnomalyVars, combineVars,
                   step1Vars, farVars, distancesVars, rulesVars, stationsVars,
                   brightnessVars>>

NextMain == RemoveResults \/ \E step \in 0 .. 6 : RunStep(step)

SpecMain == InitMain /\ [][NextMain]_vars

\* the step main calls before a step
Predecessor(step) ==
    IF step = 5 /\ ~urban_adjustment_option THEN 3 ELSE step - 1

\* C21: the steps are called in the order 0, 1, 2, 3, (4), 5, 6; when a step
\* is called the step before it has returned and its file is written, and
\* when step 6 is called the files of steps 2, 3 (and 4, if it runs) and 5
\* are there
C21_StepsInOrder ==
    pc # "start" =>
        /\ \A i \in 1 .. Len(started) :
              /\ i = 1 => started[i] = 0
              /\ i > 1 => /\ started[i - 1] = Predecessor(started[i])
                          /\ output_file(started[i - 1]) \in results_dir
              /\ started[i] = 4 => urban_adjustment_option
        /\ (\E i \in 1 .. Len(started) : started[i] = 6) =>
              /\ {output_file(2), output_file(3), output_file(5)} \subseteq results_dir
              /\ urban_adjustment_option => output_file(4) \in results_dir

\* a run with the option on in which all seven steps were called
C21_Witness ==
    /\ urban_adjustment_option
    /\ started = <<0, 1, 2, 3, 4, 5, 6>>
    /\ output_file(6) \in results_dir

\* C24: when a step has raised, the error is logged, main has returned, no
\* step was called after it, gistemp_result.nc is not written and the results
\* directory holds the files of the steps that returned in this run, nothing
\* of an earlier run
C24_RaiseEndsTheRun ==
    logged = TRUE =>
        /\ pc = "returned"
        /\ output_file(6) \notin results_dir
        /\ results_dir = {output_file(started[i]) : i \in 1 .. Len(started) - 1}

\* step 2 raises after steps 0 and 1 have returned: their two files are all
\* the directory holds
C24_Witness ==
    /\ started = <<0, 1, 2>>
    /\ logged = TRUE
    /\ results_dir = {output_file(0), output_file(1)}

\* C29: with the option off step 4 is not called, step 6 gets the table of
\* step 3, and a run that has come to the call of step 6 writes the result
C29_AsStated ==
    (~urban_adjustment_option /\ pc = "returned"
        /\ \E i \in 1 .. Len(started) : started[i] = 6) =>
        /\ \A i \in 1 .. Len(started) : started[i] # 4
        /\ step4_output = "step3"
        /\ output_file(6) \in results_dir

-----------------------------------------------------------------------------
(* steps/step1.py: filter_by_stations.  A table has its column labels in
   order, and for every station a row: the coordinates and, per calendar
   month, the values of the years START_YEAR .. END_YEAR *)

\* str(month) + "_" + str(year), and the two coordinate columns
month_column(month, year) == <<"value", month, year>>

LatitudeColumn == <<"Latitude", 0, 0>>

LongitudeColumn == <<"Longitude", 0, 0>>

\* range(1, 13)
Months == 1 .. 12

\* the columns of the frame of one month: its years, Latitude, Longitude
monthly_columns(month, first, last) ==
    [i \in 1 .. last - first + 1 |-> month_column(month, first + i - 1)]
        \o <<LatitudeColumn, LongitudeColumn>>

\* pd.concat(monthly_dataframes, axis=1): the columns of the frames of the
\* months 1 .. month, one frame after the other
RECURSIVE concat_columns(_, _, _)
concat_columns(month, first, last) ==
    IF month = 0 THEN <<>>
    ELSE concat_columns(month - 1, first, last) \o monthly_columns(month, first, last)

\* year by year the months 1 .. 12, then Latitude and Longitude
sorted_columns(first, last) ==
    [k \in 1 .. (last - first + 1) * 12 |->
        month_column(((k - 1) % 12) + 1, first + ((k - 1) \div 12))]
        \o <<LatitudeColumn, LongitudeColumn>>

\* df[labels]: for every label in turn, all the columns that carry it; the
\* labels lo .. hi
RECURSIVE select_columns(_, _, _, _)
select_columns(columns, labels, lo, hi) ==
    IF hi < lo THEN <<>>
    ELSE IF lo = hi THEN SelectSeq(columns, LAMBDA c : c = labels[lo])
    ELSE select_columns(columns, labels, lo, (lo + hi) \div 2)
            \o select_columns(columns, labels, ((lo + hi) \div 2) + 1, hi)

\* df.loc[:, ~df.columns.duplicated()]: the first column of every label
first_of_each(columns) ==
    LET kept == SelectSeq([n \in 1 .. Len(columns) |-> n],
                          LAMBDA n : \A i \in 1 .. n - 1 : columns[i] # columns[n])
    IN  [k \in 1 .. Len(kept) |-> columns[kept[k]]]

\* timeseries_data.count(axis=1) of the frame of a month
valid_data_count(values) ==
    Cardinality({y \in DOMAIN values : ~IsNaN(values[y])})

\* mutant: a month needs more than 20 values
enough_monthly_data_above(count) == count > 20

\* df_monthly["Valid Data Count"] >= 20
enough_monthly_data(count) == count >= 20

\* the values of a month: as they are, or all missing without enough data
filter_month(values) ==
    IF enough_monthly_data(valid_data_count(values)) THEN values
    ELSE [y \in DOMAIN values |-> NaN]

filter_by_stations(table, first, last) ==
    [columns |->
        CHOOSE kept \in { first_of_each(selected) :
            selected \in { select_columns(all, labels, 1, Len(labels)) :
                all \in { concat_columns(12, first, last) },
                labels \in { sorted_columns(first, last) } } } : TRUE,
     rows |-> [s \in DOMAIN table.rows |->
                 [Latitude |-> table.rows[s].Latitude,
                  Longitude |-> table.rows[s].Longitude,
                  series |-> [m \in Months |-> filter_month(table.rows[s].series[m])]]]]

\* the number of years without a value at the start of a month's series:
\* none, as many as leave 20 and 19 values, and all
MissingAtStart == {0, MaxYears - 20, MaxYears - 19, MaxYears}

\* the months whose series varies from run to run; the others have a value
\* in every year
VariedMonths == {1, 12}

\* the input columns: month by month, the coordinates first
InputColumns ==
    <<LatitudeColumn, LongitudeColumn>>
        \o [k \in 1 .. MaxYears * 12 |->
               month_column(((k - 1) \div MaxYears) + 1, ((k - 1) % MaxYears) + 1)]

InitStations ==
    /\ pc = "start"
    /\ \E missing \in [1 .. MaxStations -> [VariedMonths -> MissingAtStart]] :
          df_stations_input =
              [columns |-> InputColumns,
               rows |-> [s \in 1 .. MaxStations |->
                   [Latitude |-> <<10 * s, 1>>,
                    Longitude |-> <<-20 * s, 1>>,
                    series |-> [m \in Months |-> [y \in 1 .. MaxYears |->
                        IF m \in VariedMonths /\ y <= missing[s][m] THEN NaN
                        ELSE <<s + m + y, 1>>]]]]]
    /\ df_filtered_stations = None
    /\ EarlierNone
    /\ Step3None /\ GridAnomalyNone /\ CombineNone /\ Step1None /\ FarNone
    /\ DistancesNone
    /\ MainNone /\ RulesNone /\ BrightnessNone

FilterByStations ==
    /\ pc = "start"
    /\ df_filtered_stations' = filter_by_stations(df_stations_input, 1, MaxYears)
    /\ pc' = "filtered"
    /\ UNCHANGED <<df_stations_input, earlierVars, step3Vars, gridAnomalyVars,
                   combineVars, step1Vars, farVars, distancesVars, mainVars,
                   rulesVars, brightnessVars>>

NextStations == FilterByStations

SpecStations == InitStations /\ [][NextStations]_vars

-----------------------------------------------------------------------------
(* steps/step1.py: filter_by_rules.  A rule names a station and a period;
   a period with "-" is held as its two years, one with "/" as its year and
   month.  A row gives every column <<month, year>> its value. *)

\* Omit_Period "A-B" and "YYYY/MM"
YearRange(start_year, end_year) ==
    [dash |-> TRUE, start_year |-> start_year, end_year |-> end_year, month |-> 0]

SingleMonth(year, month) ==
    [dash |-> FALSE, start_year |-> year, end_year |-> year, month |-> month]

\* the columns a rule sets to NaN, out of the time columns of the table
cols_to_replace(period, time_cols) ==
    IF period.dash
    THEN IF period.start_year = 0
         THEN IF period.end_year = 9999
              THEN time_cols
              ELSE time_cols \ {col \in time_cols : col[2] > period.end_year}
         ELSE time_cols \ {col \in time_cols : col[2] < period.start_year}
    ELSE {<<period.month, period.start_year>>}

\* df_filtered.loc[station, cols] = np.nan
drop_values(table, station, cols) ==
    [s \in DOMAIN table |->
        IF s = station
        THEN [col \in DOMAIN table[s] |-> IF col \in cols THEN NaN ELSE table[s][col]]
        ELSE table[s]]

\* the loop over the rows of df_drop_rules, on a copy of the table
RECURSIVE filter_by_rules(_, _, _)
filter_by_rules(table, rules, n) ==
    IF n = 0 THEN table
    ELSE LET df_filtered == filter_by_rules(table, rules, n - 1)
             time_cols == UNION {DOMAIN df_filtered[s] : s \in DOMAIN df_filtered}
         IN  drop_values(df_filtered, rules[n].Station_ID,
                         cols_to_replace(rules[n].Omit_Period, time_cols))

\* the years of the table, and the rows of drop_rules.csv
MaxRuleYears == 3

MaxRules == 2

RuleMonths == {1, 12}

\* the periods of the rules: ranges from the first year or from a year, to
\* a year or to the last year, and single months
Periods ==
    { YearRange(a, b) : a \in 0 .. MaxRuleYears, b \in 1 .. MaxRuleYears }
        \cup { YearRange(a, 9999) : a \in 0 .. MaxRuleYears }
        \cup { SingleMonth(y, m) : y \in 1 .. MaxRuleYears, m \in RuleMonths }

Rules == [Station_ID : 1 .. MaxStations, Omit_Period : {p \in Periods : p.start_year <= p.end_year}]

InitRules ==
    /\ pc = "start"
    /\ df_drop_rules \in UNION { [1 .. n -> Rules] : n \in 1 .. MaxRules }
    /\ df_rules_input =
          [s \in 1 .. MaxStations |->
              [col \in RuleMonths \X (1 .. MaxRuleYears) |->
                  IF s = 1 /\ col = <<1, 1>> THEN NaN ELSE <<s + col[1] + col[2], 1>>]]
    /\ df_filtered_rules = None
    /\ EarlierNone
    /\ Step3None /\ GridAnomalyNone /\ CombineNone /\ Step1None /\ FarNone
    /\ DistancesNone
    /\ MainNone /\ StationsNone /\ BrightnessNone

FilterByRules ==
    /\ pc = "start"
    /\ df_filtered_rules' = filter_by_rules(df_rules_input, df_drop_rules,
                                            Len(df_drop_rules))
    /\ pc' = "filtered"
    /\ UNCHANGED <<df_drop_rules, df_rules_input, earlierVars, step3Vars,
                   gridAnomalyVars, combineVars, step1Vars, farVars,
                   distancesVars, mainVars, stationsVars, brightnessVars>>

NextRules == FilterByRules

SpecRules == InitRules /\ [][NextRules]_vars

\* the value of a station in a month of a year falls in the period of a rule
\* on that station: for "A-B" the years A to B, 0 for the first year and
\* 9999 for the last; for "YYYY/MM" that month
InPeriod(rule, s, col) ==
    /\ rule.Station_ID = s
    /\ IF rule.Omit_Period.dash
       THEN /\ (rule.Omit_Period.start_year = 0 \/ col[2] >= rule.Omit_Period.start_year)
            /\ (rule.Omit_Period.end_year = 9999 \/ col[2] <= rule.Omit_Period.end_year)
       ELSE col = <<rule.Omit_Period.month, rule.Omit_Period.start_year>>

\* C23: filter_by_rules sets to missing exactly the values that fall in the
\* period of a rule on their station; every other value is unchanged
C23_AsStated ==
    pc = "filtered" =>
        /\ DOMAIN df_filtered_rules = DOMAIN df_rules_input
        /\ \A s \in DOMAIN df_rules_input : \A col \in DOMAIN df_rules_input[s] :
              IF \E n \in 1 .. Len(df_drop_rules) : InPeriod(df_drop_rules[n], s, col)
              THEN IsNaN(df_filtered_rules[s][col])
              ELSE df_filtered_rules[s][col] = df_rules_input[s][col]

-----------------------------------------------------------------------------
(* steps/step4.py: the loop of adjust_urban_anomalies, station by station in
   the order of the rows of df_urban_valid *)

\* lines 283-301: the row of the station in df is replaced by the weighted
\* sum of the rows its mapping names in df_rural
adjust_station(table, df_rural, station, weights_dict) ==
    [table EXCEPT ![station].series =
        [c \in DOMAIN table[station].series |->
            ZeroToNaN(WeightedSum(weights_dict, df_rural, c))]]

\* mutant: the loop ends after its first station
adjust_in_order_once(table, df_rural, df_urban_valid, order, n) ==
    IF n = 0 THEN table
    ELSE adjust_station(table, df_rural, order[1],
                        df_urban_valid[order[1]].Rural_Station_Weights)

\* the first n stations of the order
RECURSIVE adjust_in_order(_, _, _, _, _)
adjust_in_order(table, df_rural, df_urban_valid, order, n) ==
    IF n = 0 THEN table
    ELSE adjust_station(adjust_in_order(table, df_rural, df_urban_valid, order, n - 1),
                        df_rural, order[n],
                        df_urban_valid[order[n]].Rural_Station_Weights)

\* df_rural is taken from a copy of df before the loop (263-265); the loop
\* writes df
adjust_urban_anomalies_loop(table, df_urban_valid, brightness_threshold, order) ==
    LET df_rural == [s \in {x \in DOMAIN table :
                              ~is_urban(table[x].Value, brightness_threshold)} |->
                        table[s]]
    IN  adjust_in_order(table, df_rural, df_urban_valid, order, Len(order))

\* the orders in which the stations of a set can be taken
Orders(stations) ==
    {order \in [1 .. Cardinality(stations) -> stations] :
        \A i, j \in 1 .. Cardinality(stations) : order[i] = order[j] => i = j}

\* C25: whatever the order in which the retained urban stations are taken,
\* the loop gives the table adjust_urban_anomalies returns, and every
\* station a mapping names is a rural station, whose row the loop never
\* writes
C25_AnyOrderSameTable ==
    pc = "adjusted" =>
        /\ \A order \in Orders(DOMAIN weights4.df_urban_valid) :
              adjust_urban_anomalies_loop(df, weights4.df_urban_valid,
                                          args.brightness_threshold, order) = df4
        /\ \A s \in DOMAIN weights4.df_urban_valid :
              \A k \in DOMAIN weights4.df_urban_valid[s].Rural_Station_Weights :
                  /\ ~is_urban(df[k].Value, args.brightness_threshold)
                  /\ k \notin DOMAIN weights4.df_urban_valid
                  /\ df4[k] = df[k]

\* two urban stations are retained and both get a new series
C25_Witness ==
    /\ pc = "adjusted"
    /\ \E s, t \in DOMAIN weights4.df_urban_valid :
          /\ s # t
          /\ df4[s].series # df[s].series
          /\ df4[t].series # df[t].series

-----------------------------------------------------------------------------
(* Further properties of combine_land_ocean_anomalies (SpecCombine) and of
   calculate_grid_anomalies (SpecGridAnomaly) *)

\* 1 - (missing values of the series / length of the series)
ShareOfValues(series) ==
    RatSub(One, Rat(null_count(series, Len(series)), Len(series)))

\* C26: at every grid point the land weight and the ocean weight are each
\* 1 - (missing months of the field / months of the field) and lie in [0, 1]
C26_AsStated ==
    pc = "combined" =>
        \A p \in DOMAIN ds_anomaly :
            LET land_until == sel_until(ds_land[p], Len(ds_ocean[p]))
            IN  /\ OceanWeight(p) = ShareOfValues(ds_ocean[p])
                /\ LandWeight(p) = ShareOfValues(land_until)
                /\ RatLeq(Zero, LandWeight(p)) /\ RatLeq(LandWeight(p), One)
                /\ RatLeq(Zero, OceanWeight(p)) /\ RatLeq(OceanWeight(p), One)

\* C27: where the land value and the ocean value of a grid point and month
\* are both present, the combined value lies between the two
C27_AsStated ==
    pc = "combined" =>
        \A p \in DOMAIN ds_anomaly : \A t \in DOMAIN ds_anomaly[p] :
            (~IsNaN(ds_land[p][t]) /\ ~IsNaN(ds_ocean[p][t])) =>
                /\ ~IsNaN(ds_anomaly[p][t])
                /\ \/ /\ RatLeq(ds_land[p][t], ds_anomaly[p][t])
                      /\ RatLeq(ds_anomaly[p][t], ds_ocean[p][t])
                   \/ /\ RatLeq(ds_ocean[p][t], ds_anomaly[p][t])
                      /\ RatLeq(ds_anomaly[p][t], ds_land[p][t])

\* C28: a value calculate_grid_anomalies returns lies between the least and
\* the greatest of the values the stations of the cell's mapping have in that
\* column
C28_AsStated ==
    pc = "grid_anomaly" =>
        \A i \in 1 .. Len(df_grid) : \A c \in 1 .. MaxCols :
            ~IsNaN(grid_anomaly[i].series[c]) =>
                LET present == PresentStations(df_grid[i].Nearby_Stations, c)
                IN  /\ \E k \in present :
                          RatLeq(df_trimmed[k].series[c], grid_anomaly[i].series[c])
                    /\ \E k \in present :
                          RatLeq(grid_anomaly[i].series[c], df_trimmed[k].series[c])

-----------------------------------------------------------------------------
(* steps/step4.py: add_brightness_data and step4 *)

\* df.merge(brightness_df["Value"], left_index=True, right_index=True), line
\* 158: how is left at its default "inner", so the rows are those whose
\* station id is in both indexes, each with the column Value added
merge(table, lookup) ==
    [s \in DOMAIN table \cap DOMAIN lookup |->
        [Latitude |-> table[s].Latitude, Longitude |-> table[s].Longitude,
         Value |-> lookup[s].Value, series |-> table[s].series]]

\* lines 155-159
add_brightness_data(table, lookup) == merge(table, lookup)

\* the station ids of an index in row order
index_of(ids) ==
    CHOOSE q \in [1 .. Cardinality(ids) -> ids] :
        \A i, j \in 1 .. Cardinality(ids) : i < j => q[i] < q[j]

\* lines 335-358.  The rows of the merged table are taken by position for
\* calculate_rural_weights and adjust_urban_anomalies and keep their station
\* ids as labels.
step4(table, lookup, brightness_threshold, min_nearby_stations) ==
    LET merged == add_brightness_data(table, lookup)
        index == index_of(DOMAIN merged)
        rows == [i \in 1 .. Len(index) |-> merged[index[i]]]
        valid == calculate_rural_weights(rows, brightness_threshold,
                                         min_nearby_stations, EARTH_RADIUS,
                                         URBAN_NEARBY_RADIUS).df_urban_valid
        adjusted == adjust_urban_anomalies(rows, valid, brightness_threshold)
    IN  [s \in DOMAIN merged |->
            adjusted[CHOOSE i \in 1 .. Len(index) : index[i] = s]]

\* station ids of the anomaly table and of the inventory file
StationIds == 1 .. MaxRows

\* the anomaly tables step 3 hands over: any stations, closer to each other
\* than URBAN_NEARBY_RADIUS, with one of the series tables
AnomalyTables ==
    { [s \in ids |-> [Latitude |-> Deg(10) + 40 * (s - 1), Longitude |-> Deg(20),
                      series |-> series[s]]] :
        ids \in SUBSET StationIds, series \in SeriesTables }

\* what collect_brightness_data returns: a row with a Value for every line
\* of the inventory file (process_inv_file, lines 86-114)
BrightnessTables ==
    UNION { [ids -> [Value : BrightnessValues]] : ids \in SUBSET StationIds }

InitBrightness ==
    /\ pc = "start"
    /\ df_input4 \in AnomalyTables
    /\ brightness_df \in BrightnessTables
    /\ anomaly_with_brightness = None
    /\ df_adjusted_urban = None
    /\ EarlierNone
    /\ Step3None /\ GridAnomalyNone /\ CombineNone /\ Step1None /\ FarNone
    /\ DistancesNone
    /\ MainNone /\ RulesNone /\ StationsNone

Step4 ==
    /\ pc = "start"
    /\ anomaly_with_brightness' = add_brightness_data(df_input4, brightness_df)
    /\ df_adjusted_urban' = step4(df_input4, brightness_df,
                                   URBAN_BRIGHTNESS_THRESHOLD,
                                   MIN_NEARBY_RURAL_STATIONS)
    /\ pc' = "step4"
    /\ UNCHANGED <<df_input4, brightness_df, earlierVars, step3Vars,
                   gridAnomalyVars, combineVars, step1Vars, farVars,
                   distancesVars, mainVars, rulesVars, stationsVars>>

NextBrightness == Step4

SpecBrightness == InitBrightness /\ [][NextBrightness]_vars

\* C30: the table step4 returns has exactly the station ids of the table it
\* was given, also for a station without a row in the brightness table
C30_AsStated ==
    pc = "step4" => DOMAIN df_adjusted_urban = DOMAIN df_input4

=============================================================================
